---------------------------- MODULE Spec2Model ----------------------------
(***************************************************************************)
(* Multi-Sport Stats App (src/app.py): the session state (game, roster,    *)
(* logs), the Google Sheet the roster is read from, the per-sport          *)
(* build_form / aggregate_totals plugins and the script run that ties them *)
(* together.                                                               *)
(*                                                                         *)
(* Encoding.  A pandas cell that may be null is a sequence of length <= 1: *)
(* None (<<>>) is None/NaN/<NA>, Some(v) (<<v>>) is the value v.  A dict   *)
(* is a TLA+ function whose DOMAIN is the dict's key set.  A DataFrame is  *)
(* a record [cols, rows]: the column set and the sequence of rows, every   *)
(* row a function over cols.  Yards, flags and counts are integers;        *)
(* lacrosse minutes are whole minutes, penalty minutes are counted in      *)
(* half minutes (the widget's step); a percentage rounded to one decimal   *)
(* is an integer number of tenths, GAA an integer number of hundredths.    *)
(***************************************************************************)
EXTENDS Integers, Sequences, FiniteSets, TLC

VARIABLES
    game,       \* st.session_state.game: NoGame or [sport, date, opponent, sheet_id]
    roster,     \* st.session_state.roster: sequence of roster rows
    logs,       \* st.session_state.logs: DataFrame [cols, rows]
    sheets,     \* the Google Sheets: sheet id -> sequence of worksheets
    run         \* the last script run: what the user did and what the form returned

vars == <<game, roster, logs, sheets, run>>

None == <<>>
Some(v) == <<v>>
IsNull(c) == c = None
Val(c) == c[1]

Range(s) == {s[i] : i \in DOMAIN s}

\* dict | dict: the right operand's keys win
Merge(base, extra) == extra @@ base

(***************************************************************************)
(* Strings                                                                 *)
(***************************************************************************)
RECURSIVE LStrip(_)
LStrip(s) ==
    IF Len(s) > 0 /\ SubSeq(s, 1, 1) = " " THEN LStrip(SubSeq(s, 2, Len(s))) ELSE s

RECURSIVE RStrip(_)
RStrip(s) ==
    IF Len(s) > 0 /\ SubSeq(s, Len(s), Len(s)) = " "
    THEN RStrip(SubSeq(s, 1, Len(s) - 1)) ELSE s

\* the texts, URLs and dates the specifications draw their inputs from
Opponents == {" Wildcats "}
Notes == {"", " 4th down "}
Urls == {"docs.google.com/spreadsheets/d/S1/edit", " S2 ", "S3", "S9"}
Dates == {[year |-> 2025, month |-> 9, day |-> 5]}

\* str.strip(); the results for the input texts are tabulated once
StripTable == [s \in Opponents \cup Notes \cup Urls |-> RStrip(LStrip(s))]
Strip(s) == IF s \in DOMAIN StripTable THEN StripTable[s] ELSE RStrip(LStrip(s))

(***************************************************************************)
(* The Google Sheet and the roster read from it                            *)
(***************************************************************************)
ColFirst == "Player First Name"
ColLast == "Player Last Name"
ColNumber == "Player Number"
ColPositions == "Player Position(s)"

\* rename_map of read_roster_df
RenameMap == (ColFirst :> "first_name") @@ (ColLast :> "last_name")
             @@ (ColNumber :> "number") @@ (ColPositions :> "positions")

RosterColumns == {"player_key", "first_name", "last_name", "number", "positions"}

\* A raw number cell of a sheet or a CSV: an integer, a text that is no
\* number, or a number with a fraction.
RawInt(n) == [kind |-> "int", val |-> n]
RawText(s) == [kind |-> "text", txt |-> s]
RawFrac(n) == [kind |-> "frac", floor |-> n]

\* pd.to_numeric(..., errors="coerce"): what does not parse becomes NaN
ToNumericRaw(c) == IF c.kind = "text" THEN None ELSE Some(c)

\* .astype("Int64") of a whole-number cell; a fraction cannot be cast
CanCastInt64(c) == IsNull(c) \/ Val(c).kind = "int"
AsInt64(c) == IF IsNull(c) THEN None ELSE Some(Val(c).val)

\* f"{r['number']}": an Int64 value, or <NA>
NumberStr(n) == IF IsNull(n) THEN "<NA>" ELSE ToString(Val(n))

\* f"#{r['number']} {r['first_name']} {r['last_name']}"
PlayerKey(number, first, last) ==
    "#" \o NumberStr(number) \o " " \o first \o " " \o last

\* find_roster_ws: the worksheet named "Roster", else the first worksheet
FindRosterWs(sh) ==
    IF \E i \in DOMAIN sh : sh[i].title = "Roster"
    THEN sh[CHOOSE i \in DOMAIN sh : sh[i].title = "Roster"]
    ELSE sh[1]

\* ws.get_all_records() then pd.DataFrame(rows): no data row, no column
RecordsFrame(ws) ==
    [cols |-> IF ws.rows = <<>> THEN {} ELSE ws.header, rows |-> ws.rows]

\* df.rename(columns=rename_map)
RenameColumn(c) == IF c \in DOMAIN RenameMap THEN RenameMap[c] ELSE c
Rename(df) ==
    [cols |-> {RenameColumn(c) : c \in df.cols},
     rows |-> [i \in DOMAIN df.rows |->
                 [c \in {RenameColumn(k) : k \in df.cols} |->
                    LET k == CHOOSE k \in df.cols : RenameColumn(k) = c
                    IN  df.rows[i][k]]]]

\* read_roster_df: "stop" when a column is missing (st.error; st.stop()),
\* "raise" when the number column cannot be cast, else the roster
ReadRosterDf(sh) ==
    LET df == Rename(RecordsFrame(FindRosterWs(sh)))
        missing == {k \in Range(RenameMap) : k \notin df.cols}
        num(i) == ToNumericRaw(df.rows[i]["number"])
    IN  IF missing # {} THEN [outcome |-> "stop"]
        ELSE IF \E i \in DOMAIN df.rows : ~CanCastInt64(num(i))
        THEN [outcome |-> "raise"]
        ELSE [outcome |-> "ok",
              df |-> [i \in DOMAIN df.rows |->
                        [player_key |-> PlayerKey(AsInt64(num(i)),
                                                  df.rows[i]["first_name"],
                                                  df.rows[i]["last_name"]),
                         first_name |-> df.rows[i]["first_name"],
                         last_name |-> df.rows[i]["last_name"],
                         number |-> AsInt64(num(i)),
                         positions |-> df.rows[i]["positions"]]]]

\* roster["player_key"].tolist()
PlayerKeys(r) == [i \in DOMAIN r |-> r[i].player_key]

\* roster.loc[roster["player_key"] == key]
LocKey(r, key) == SelectSeq(r, LAMBDA p : p.player_key = key)

\* .iloc[0] raises IndexError on an empty selection
Resolves(r, key) == LocKey(r, key) # <<>>
Iloc0(sel) == sel[1]

\* the identity keys a form row takes from a roster row:
\* int(pr["number"]) if pd.notna(pr["number"]) else None
Identity(p) ==
    [player_key |-> p.player_key, first_name |-> p.first_name,
     last_name |-> p.last_name, number |-> p.number, positions |-> p.positions]

(***************************************************************************)
(* build_form: the values the form leaves in the script's locals when the  *)
(* user presses "Add Stat" (the Locals sets), and the rows built from them *)
(* (the NewRows operators).  inp is the record of the sets the number and  *)
(* text inputs are drawn from.                                             *)
(***************************************************************************)

\* BaseRow that stamps every event as a Football event
BaseRowOfFootball(sport, pr, side, notes, now) ==
    Merge(Identity(pr),
          [timestamp |-> now, sport |-> "Football", side |-> side,
           notes |-> Strip(notes)])

\* base_row: the keys every row of one submission shares
BaseRow(sport, pr, side, notes, now) ==
    Merge(Identity(pr),
          [timestamp |-> now, sport |-> sport, side |-> side, notes |-> Strip(notes)])

\* OtherKeys that keeps the selected player among the options
EveryKey(r, player_key) == Range(PlayerKeys(r))

\* [pk for pk in roster["player_key"].tolist() if pk != player_key]
OtherKeys(r, player_key) == {k \in Range(PlayerKeys(r)) : k # player_key}

\* SportSpec.build_form: a sport that is not implemented submits nothing
StubBuildForm == [submitted |-> FALSE, new_rows |-> <<>>]

(* ------------------------------ Football ------------------------------ *)
FootballName == "Football"
FootballSides == {"Offense", "Defense"}

FbLocal(k, side, st, oc, y, td, rcv, pair, n) ==
    [player_key |-> k, side |-> side, stat_type |-> st, outcome |-> oc,
     yards |-> y, touchdown_val |-> td, fb_receiver |-> rcv,
     fb_pair_reception |-> pair, notes |-> n]

\* options=receiver_options if receiver_options else ["No eligible receivers"]
FbReceiverOptions(r, player_key) ==
    IF OtherKeys(r, player_key) # {} THEN OtherKeys(r, player_key)
    ELSE {"No eligible receivers"}

FootballLocals(r, inp) ==
    LET keys == Range(PlayerKeys(r))
    IN  UNION {
        {FbLocal(k, "Offense", st, None, Some(y), td, None, FALSE, n) :
            k \in keys, st \in {"Reception", "Run"}, y \in inp.yards,
            td \in {0, 1}, n \in inp.notes},
        {FbLocal(k, "Offense", "Punt", None, Some(y), 0, None, FALSE, n) :
            k \in keys, y \in inp.yards, n \in inp.notes},
        {FbLocal(k, "Offense", "Fumble", None, None, 0, None, FALSE, n) :
            k \in keys, n \in inp.notes},
        {FbLocal(k, "Offense", "Pass", Some("Incomplete"), None, 0, None, FALSE, n) :
            k \in keys, n \in inp.notes},
        UNION {{FbLocal(k, "Offense", "Pass", Some("Complete"), Some(y), td,
                        Some(rcv), pair, n) :
                    rcv \in FbReceiverOptions(r, k), y \in inp.yards,
                    td \in {0, 1}, pair \in BOOLEAN, n \in inp.notes} : k \in keys},
        {FbLocal(k, "Offense", "Field Goal", Some(oc), Some(y), 0, None, FALSE, n) :
            k \in keys, oc \in {"Made", "Miss"}, y \in inp.fg_yards, n \in inp.notes},
        {FbLocal(k, "Defense", st, None, None, 0, None, FALSE, n) :
            k \in keys, st \in {"Forced Fumble", "Sack", "Tackle"}, n \in inp.notes},
        {FbLocal(k, "Defense", "Interception", None, None, td, None, FALSE, n) :
            k \in keys, td \in {0, 1}, n \in inp.notes},
        {FbLocal(k, "Defense", "Return", None, Some(y), td, None, FALSE, n) :
            k \in keys, y \in inp.yards, td \in {0, 1}, n \in inp.notes}}

\* the primary row
FbPrimaryRow(r, w, now) ==
    Merge(BaseRow(FootballName, Iloc0(LocKey(r, w.player_key)), w.side, w.notes, now),
          [stat_type |-> w.stat_type, outcome |-> w.outcome, yards |-> w.yards,
           touchdown |-> Some(w.touchdown_val)])

\* the condition under which a paired Reception is attempted
FbPairs(w) ==
    /\ w.side = "Offense"
    /\ w.stat_type = "Pass"
    /\ w.outcome = Some("Complete")
    /\ w.fb_pair_reception

\* FbPairedRows with a Reception that does not take the yards of the Pass
FbPairedRowsNoYards(r, w, now) ==
    IF FbPairs(w) /\ Resolves(r, Val(w.fb_receiver))
    THEN LET pr == Iloc0(LocKey(r, w.player_key))
             rcv == Iloc0(LocKey(r, Val(w.fb_receiver)))
         IN  <<Merge(Merge(BaseRow(FootballName, pr, w.side, w.notes, now),
                           Identity(rcv)),
                     [side |-> "Offense", stat_type |-> "Reception",
                      outcome |-> None, yards |-> None,
                      touchdown |-> Some(w.touchdown_val)])>>
    ELSE <<>>

\* FbPairedRows without the lookup of the receiver: the selected option is
\* committed as the Reception's player
FbPairedRowsUnresolved(r, w, now) ==
    IF FbPairs(w)
    THEN <<Merge(BaseRow(FootballName, Iloc0(LocKey(r, w.player_key)), w.side,
                         w.notes, now),
                 [player_key |-> Val(w.fb_receiver), side |-> "Offense",
                  stat_type |-> "Reception", outcome |-> None, yards |-> w.yards,
                  touchdown |-> Some(w.touchdown_val)])>>
    ELSE <<>>

\* the paired Reception; the try/except drops it when the receiver does not resolve
FbPairedRows(r, w, now) ==
    IF FbPairs(w) /\ Resolves(r, Val(w.fb_receiver))
    THEN LET pr == Iloc0(LocKey(r, w.player_key))
             rcv == Iloc0(LocKey(r, Val(w.fb_receiver)))
         IN  <<Merge(Merge(BaseRow(FootballName, pr, w.side, w.notes, now),
                           Identity(rcv)),
                     [side |-> "Offense", stat_type |-> "Reception",
                      outcome |-> None, yards |-> w.yards,
                      touchdown |-> Some(w.touchdown_val)])>>
    ELSE <<>>

FootballNewRows(r, w, now) == <<FbPrimaryRow(r, w, now)>> \o FbPairedRows(r, w, now)

(* ------------------------------- Soccer ------------------------------- *)
SoccerName == "Soccer"

ScLocal(k, st, ont, g, oc, rcv, rg, card, n) ==
    [player_key |-> k, stat_type |-> st, on_target |-> ont, goal |-> g,
     outcome |-> oc, receiver_key |-> rcv, resulted_goal |-> rg, card |-> card,
     notes |-> n]

\* options=recv_options if recv_options else ["None"]
ScReceiverOptions(r, player_key) ==
    IF OtherKeys(r, player_key) # {} THEN OtherKeys(r, player_key) ELSE {"None"}

SoccerLocals(r, inp) ==
    LET keys == Range(PlayerKeys(r))
    IN  UNION {
        {ScLocal(k, "Shot", Some(ont), g, None, None, FALSE, "None", n) :
            k \in keys, ont \in BOOLEAN, g \in {0, 1}, n \in inp.notes},
        {ScLocal(k, "Pass", None, 0, Some("Incomplete"), None, FALSE, "None", n) :
            k \in keys, n \in inp.notes},
        UNION {{ScLocal(k, "Pass", None, 0, Some("Complete"), Some(rcv), rg, "None", n) :
                    rcv \in ScReceiverOptions(r, k), rg \in BOOLEAN, n \in inp.notes} :
               k \in keys},
        {ScLocal(k, st, None, 0, None, None, FALSE, "None", n) :
            k \in keys, st \in {"Tackle", "Interception", "Save"}, n \in inp.notes},
        {ScLocal(k, "Foul", None, 0, None, None, FALSE, card, n) :
            k \in keys, card \in {"None", "Yellow", "Red"}, n \in inp.notes}}

\* int(bool(on_target)) if on_target is not None else None
BoolInt(b) == IF b THEN 1 ELSE 0

\* if outcome == "Complete" and receiver_key and receiver_key != player_key: if resulted_goal
ScAssists(w) ==
    /\ w.stat_type = "Pass"
    /\ w.outcome = Some("Complete")
    /\ ~IsNull(w.receiver_key)
    /\ Val(w.receiver_key) # ""
    /\ Val(w.receiver_key) # w.player_key
    /\ w.resulted_goal

\* ScShotRows with a Shot that is no goal
ScShotRowsNoGoal(r, base, w) ==
    IF Resolves(r, Val(w.receiver_key))
    THEN <<Merge(Merge(base, Identity(Iloc0(LocKey(r, Val(w.receiver_key))))),
                 [stat_type |-> "Shot", on_target |-> Some(1), goal |-> Some(0)])>>
    ELSE <<>>

\* ScShotRows that logs the Shot for whatever option is selected
ScShotRowsOfOption(r, base, w) ==
    <<Merge(Merge(base, [player_key |-> Val(w.receiver_key)]),
            [stat_type |-> "Shot", on_target |-> Some(1), goal |-> Some(1)])>>

\* the recipient's Shot; the try/except drops it when the recipient does not resolve
ScShotRows(r, base, w) ==
    IF Resolves(r, Val(w.receiver_key))
    THEN <<Merge(Merge(base, Identity(Iloc0(LocKey(r, Val(w.receiver_key))))),
                 [stat_type |-> "Shot", on_target |-> Some(1), goal |-> Some(1)])>>
    ELSE <<>>

SoccerNewRows(r, w, now) ==
    LET base == BaseRow(SoccerName, Iloc0(LocKey(r, w.player_key)), "All", w.notes, now)
    IN  CASE w.stat_type = "Shot" ->
                <<Merge(base, [stat_type |-> "Shot",
                               on_target |-> Some(BoolInt(Val(w.on_target))),
                               goal |-> Some(w.goal)])>>
          [] w.stat_type = "Pass" ->
                <<Merge(base, [stat_type |-> "Pass", outcome |-> w.outcome])>>
                \o (IF ScAssists(w)
                    THEN <<Merge(base, [stat_type |-> "Assist"])>> \o ScShotRows(r, base, w)
                    ELSE <<>>)
          [] w.stat_type \in {"Tackle", "Interception", "Save"} ->
                <<Merge(base, [stat_type |-> w.stat_type])>>
          [] w.stat_type = "Foul" ->
                <<Merge(base, [stat_type |-> "Foul", card |-> Some(w.card)])>>

(* ------------------------------ Lacrosse ------------------------------ *)
LacrosseName == "Lacrosse"

LcLocal(k, st, ak, ont, fo, pm, m, n) ==
    [player_key |-> k, stat_type |-> st, assist_key |-> ak, on_target |-> ont,
     faceoff_result |-> fo, penalty_minutes |-> pm, minutes |-> m, notes |-> n]

\* options=["None"] + assist_opts
LcAssistOptions(r, player_key) == {"None"} \cup OtherKeys(r, player_key)

LacrosseLocals(r, inp) ==
    LET keys == Range(PlayerKeys(r))
    IN  UNION {
        UNION {{LcLocal(k, "Goal", Some(ak), None, None, None, None, n) :
                    ak \in LcAssistOptions(r, k), n \in inp.notes} : k \in keys},
        {LcLocal(k, "Shot", None, Some(ont), None, None, None, n) :
            k \in keys, ont \in BOOLEAN, n \in inp.notes},
        {LcLocal(k, "Faceoff", None, None, Some(fo), None, None, n) :
            k \in keys, fo \in {"Win", "Loss"}, n \in inp.notes},
        {LcLocal(k, "Penalty", None, None, None, Some(pm), None, n) :
            k \in keys, pm \in inp.penalty_halves, n \in inp.notes},
        {LcLocal(k, "Goalie Minutes", None, None, None, None, Some(m), n) :
            k \in keys, m \in inp.minutes, n \in inp.notes},
        {LcLocal(k, st, None, None, None, None, None, n) :
            k \in keys, n \in inp.notes,
            st \in {"Assist", "Ground Ball", "Takeaway", "Interception", "Turnover",
                    "Save", "Goal Allowed"}}}

\* if assist_key and assist_key != "None"
LcAssists(w) ==
    /\ ~IsNull(w.assist_key)
    /\ Val(w.assist_key) # ""
    /\ Val(w.assist_key) # "None"

\* LcAssistRows with an Assist that keeps the scorer's identity
LcAssistRowsOfScorer(r, base, w) ==
    IF LcAssists(w) /\ Resolves(r, Val(w.assist_key))
    THEN <<Merge(base, [stat_type |-> "Assist"])>>
    ELSE <<>>

\* the Assist row; the try/except drops it when the assisting player does not resolve
LcAssistRows(r, base, w) ==
    IF LcAssists(w) /\ Resolves(r, Val(w.assist_key))
    THEN <<Merge(Merge(base, Identity(Iloc0(LocKey(r, Val(w.assist_key))))),
                 [stat_type |-> "Assist"])>>
    ELSE <<>>

\* LacrosseNewRows whose Goal commits no Shot row
LacrosseNewRowsGoalOnly(r, w, now) ==
    LET base == BaseRow(LacrosseName, Iloc0(LocKey(r, w.player_key)), "All", w.notes, now)
    IN  CASE w.stat_type = "Goal" ->
                <<Merge(base, [stat_type |-> "Goal", goal |-> Some(1)])>>
                \o LcAssistRows(r, base, w)
          [] w.stat_type = "Shot" ->
                <<Merge(base, [stat_type |-> "Shot",
                               on_target |-> Some(BoolInt(Val(w.on_target)))])>>
          [] w.stat_type = "Faceoff" ->
                <<Merge(base, [stat_type |-> "Faceoff", outcome |-> w.faceoff_result])>>
          [] w.stat_type = "Penalty" ->
                <<Merge(base, [stat_type |-> "Penalty",
                               penalty_minutes |-> w.penalty_minutes])>>
          [] w.stat_type = "Goalie Minutes" ->
                <<Merge(base, [stat_type |-> "Goalie Minutes", minutes |-> w.minutes])>>
          [] OTHER -> <<Merge(base, [stat_type |-> w.stat_type])>>

LacrosseNewRows(r, w, now) ==
    LET base == BaseRow(LacrosseName, Iloc0(LocKey(r, w.player_key)), "All", w.notes, now)
    IN  CASE w.stat_type = "Goal" ->
                <<Merge(base, [stat_type |-> "Goal", goal |-> Some(1)]),
                  Merge(base, [stat_type |-> "Shot", on_target |-> Some(1)])>>
                \o LcAssistRows(r, base, w)
          [] w.stat_type = "Shot" ->
                <<Merge(base, [stat_type |-> "Shot",
                               on_target |-> Some(BoolInt(Val(w.on_target)))])>>
          [] w.stat_type = "Faceoff" ->
                <<Merge(base, [stat_type |-> "Faceoff", outcome |-> w.faceoff_result])>>
          [] w.stat_type = "Penalty" ->
                <<Merge(base, [stat_type |-> "Penalty",
                               penalty_minutes |-> w.penalty_minutes])>>
          [] w.stat_type = "Goalie Minutes" ->
                <<Merge(base, [stat_type |-> "Goalie Minutes", minutes |-> w.minutes])>>
          [] OTHER -> <<Merge(base, [stat_type |-> w.stat_type])>>

(* ------------------------------ dispatch ------------------------------ *)
SportNames == {"Football", "Soccer", "Baseball", "Basketball", "Lacrosse"}

FormLocals(sport, r, inp) ==
    CASE sport = FootballName -> FootballLocals(r, inp)
      [] sport = SoccerName -> SoccerLocals(r, inp)
      [] sport = LacrosseName -> LacrosseLocals(r, inp)
      [] OTHER -> {}

\* SPORTS[sport].build_form(roster) on a submission
BuildForm(sport, r, w, now) ==
    CASE sport = FootballName ->
            [submitted |-> TRUE, new_rows |-> FootballNewRows(r, w, now)]
      [] sport = SoccerName ->
            [submitted |-> TRUE, new_rows |-> SoccerNewRows(r, w, now)]
      [] sport = LacrosseName ->
            [submitted |-> TRUE, new_rows |-> LacrosseNewRows(r, w, now)]
      [] OTHER -> StubBuildForm

(***************************************************************************)
(* DataFrames                                                              *)
(***************************************************************************)
\* pd.DataFrame()
EmptyFrame == [cols |-> {}, rows |-> <<>>]

\* the columns of the log a created game starts with
InitialLogColumns ==
    {"timestamp", "sport", "player_key", "first_name", "last_name", "number",
     "positions", "side", "stat_type", "outcome", "yards", "touchdown", "notes"}

\* a row seen through a column set: a key the row does not carry reads NaN
Reindex(row, cols) == [c \in cols |-> IF c \in DOMAIN row THEN row[c] ELSE None]

\* pd.DataFrame(list of dicts): the columns are the union of the keys
FrameOf(dicts) ==
    LET cols == UNION {DOMAIN dicts[i] : i \in DOMAIN dicts}
    IN  [cols |-> cols, rows |-> [i \in DOMAIN dicts |-> Reindex(dicts[i], cols)]]

\* pd.concat([a, b], ignore_index=True)
Concat(a, b) ==
    LET cols == a.cols \cup b.cols
    IN  [cols |-> cols,
         rows |-> [i \in DOMAIN a.rows |-> Reindex(a.rows[i], cols)]
                  \o [i \in DOMAIN b.rows |-> Reindex(b.rows[i], cols)]]

\* df.empty
IsEmpty(df) == df.rows = <<>> \/ df.cols = {}

\* logs.copy(): a new frame with the same content
Copy(df) == [cols |-> df.cols, rows |-> df.rows]

(***************************************************************************)
(* String order (Python compares strings by code point)                    *)
(***************************************************************************)
Alphabet == " #0123456789<>ABCDEFGHIJKLMNOPQRSTUVWXYZabcdefghijklmnopqrstuvwxyz"

\* the rank of every character of the alphabet
Ranks ==
    [c \in {SubSeq(Alphabet, i, i) : i \in 1..Len(Alphabet)} |->
        CHOOSE i \in 1..Len(Alphabet) : SubSeq(Alphabet, i, i) = c]

CharOrd(c) == Ranks[c]

RECURSIVE StrLess(_, _)
StrLess(a, b) ==
    IF Len(b) = 0 THEN FALSE
    ELSE IF Len(a) = 0 THEN TRUE
    ELSE IF SubSeq(a, 1, 1) = SubSeq(b, 1, 1)
    THEN StrLess(SubSeq(a, 2, Len(a)), SubSeq(b, 2, Len(b)))
    ELSE CharOrd(SubSeq(a, 1, 1)) < CharOrd(SubSeq(b, 1, 1))

\* a set of strings in ascending order (groupby sorts its keys)
RECURSIVE SortedStrings(_)
SortedStrings(S) ==
    IF S = {} THEN <<>>
    ELSE LET m == CHOOSE x \in S : \A y \in S \ {x} : StrLess(x, y)
         IN  <<m>> \o SortedStrings(S \ {m})

\* the sort key of sort_values(by=["last_name", "first_name"])
NameLess(x, y) ==
    \/ StrLess(x["last_name"], y["last_name"])
    \/ x["last_name"] = y["last_name"] /\ StrLess(x["first_name"], y["first_name"])

\* insert x after the last element that is not greater: the sort is stable
RECURSIVE InsertByName(_, _)
InsertByName(sorted, x) ==
    IF sorted = <<>> THEN <<x>>
    ELSE IF NameLess(x, sorted[Len(sorted)])
    THEN InsertByName(SubSeq(sorted, 1, Len(sorted) - 1), x) \o <<sorted[Len(sorted)]>>
    ELSE sorted \o <<x>>

\* SortByName that leaves the rows in the order of the group loop
KeepGroupOrder(rows) == rows

RECURSIVE SortByName(_)
SortByName(rows) ==
    IF rows = <<>> THEN <<>>
    ELSE InsertByName(SortByName(SubSeq(rows, 1, Len(rows) - 1)), rows[Len(rows)])

(***************************************************************************)
(* aggregate_totals                                                        *)
(***************************************************************************)
\* pd.to_numeric(col, errors="coerce").fillna(0) of one cell
Num0(c) == IF IsNull(c) THEN 0 ELSE Val(c)

IsStat(row, st) == row["stat_type"] = st

\* grp[grp["stat_type"] == st]
Matching(grp, st) == SelectSeq(grp, LAMBDA row : IsStat(row, st))

\* WithOutcome that keeps every row, whatever its outcome
WithAnyOutcome(sel, oc) == sel

\* sel[sel["outcome"] == oc]
WithOutcome(sel, oc) == SelectSeq(sel, LAMBDA row : row["outcome"] = Some(oc))

\* sel[sel["touchdown"] == 1]
WithTouchdown(sel) == SelectSeq(sel, LAMBDA row : row["touchdown"] = 1)

\* sel[col].sum()
RECURSIVE SumCol(_, _)
SumCol(sel, col) ==
    IF sel = <<>> THEN 0 ELSE sel[1][col] + SumCol(Tail(sel), col)

\* round(x, 0) of the non-negative fraction num/den, ties to even (a tie
\* needs a denominator that is a multiple of 16, and is then an exact float)
RoundHalfEven(num, den) ==
    LET q == num \div den
        r == num % den
    IN  IF 2 * r > den \/ (2 * r = den /\ q % 2 = 1) THEN q + 1 ELSE q

\* round(100 * num / den, 1) if den else 0.0, in tenths
Pct(num, den) == IF den # 0 THEN RoundHalfEven(1000 * num, den) ELSE 0

\* the rows of the log in their order, filtered: df[df["sport"] == self.name]
OfSport(df, sport) == SelectSeq(df.rows, LAMBDA row : row["sport"] = sport)

\* the groups of df.groupby("player_key"): ascending keys, rows in log order
GroupKeys(rows) == SortedStrings({rows[i]["player_key"] : i \in DOMAIN rows})
Group(rows, key) == SelectSeq(rows, LAMBDA row : row["player_key"] = key)

\* the identity columns of a totals row: the group's first occurrence
FirstOccurrence(grp) == grp[1]

IdentityColumns(key, grp) ==
    LET first == FirstOccurrence(grp)
    IN  ("player_key" :> key) @@ ("first_name" :> first["first_name"])
        @@ ("last_name" :> first["last_name"]) @@ ("number" :> first["number"])
        @@ ("positions" :> first["positions"])

\* for player_key, grp in df.groupby("player_key")
Groups(rows) ==
    LET keys == GroupKeys(rows)
    IN  [i \in DOMAIN keys |-> [key |-> keys[i], grp |-> Group(rows, keys[i])]]

\* pd.DataFrame(grouped).sort_values(by=["last_name", "first_name"]).reset_index(drop=True)
Totals(grouped) == [outcome |-> "ok", rows |-> SortByName(grouped)]

\* return pd.DataFrame()
EmptyTotals == [outcome |-> "ok", rows |-> <<>>]

\* an exception leaves aggregate_totals
Raises(e) == [outcome |-> e]

\* StubAggregateTotals that selects the rows of its sport first, as the
\* implemented sports do (df[df["sport"] == self.name])
StubAggregateFiltered(df) ==
    IF "sport" \notin df.cols THEN Raises("KeyError") ELSE EmptyTotals

\* SportSpec.aggregate_totals
StubAggregateTotals(df) == EmptyTotals

(* ------------------------------ Football ------------------------------ *)
FootballIndexed ==
    {"sport", "yards", "player_key", "first_name", "last_name", "number",
     "positions", "stat_type", "outcome"}

FootballNormalize(row) ==
    [row EXCEPT !["yards"] = Num0(@), !["touchdown"] = Num0(@)]

\* int((grp["stat_type"] == st).sum())
CountStat(grp, st) == Len(Matching(grp, st))

\* SumStat that takes the first matching value instead of the sum
SumStatFirst(grp, st, col) ==
    IF Matching(grp, st) = <<>> THEN 0 ELSE Matching(grp, st)[1][col]

\* grp.loc[grp["stat_type"] == st, col].sum()
SumStat(grp, st, col) == SumCol(Matching(grp, st), col)

\* ((grp["stat_type"] == st) & (grp["touchdown"] == 1)).sum()
CountTd(grp, st) == Len(WithTouchdown(Matching(grp, st)))

\* (sel["outcome"] == oc).sum() on the selection of one stat type
CountOutcome(grp, st, oc) == Len(WithOutcome(Matching(grp, st), oc))

FootballTotalsRow(key, grp) ==
    LET complete == WithOutcome(Matching(grp, "Pass"), "Complete")
        recTd == CountTd(grp, "Reception")
        rushTd == CountTd(grp, "Run")
        passTd == Len(WithTouchdown(complete))
        defTd == Len(WithTouchdown(
                        SelectSeq(grp, LAMBDA row :
                                    row["stat_type"] \in {"Interception", "Return"})))
    IN  IdentityColumns(key, grp)
        @@ ("Receptions" :> CountStat(grp, "Reception"))
        @@ ("Receiving Yards" :> SumStat(grp, "Reception", "yards"))
        @@ ("Receiving TDs" :> recTd)
        @@ ("Rush Attempts" :> CountStat(grp, "Run"))
        @@ ("Rushing Yards" :> SumStat(grp, "Run", "yards"))
        @@ ("Rushing TDs" :> rushTd)
        @@ ("Punts" :> CountStat(grp, "Punt"))
        @@ ("Punt Yards" :> SumStat(grp, "Punt", "yards"))
        @@ ("Fumbles" :> CountStat(grp, "Fumble"))
        @@ ("Pass Attempts" :> CountStat(grp, "Pass"))
        @@ ("Pass Completions" :> Len(complete))
        @@ ("Pass Yards" :> SumCol(complete, "yards"))
        @@ ("Passing TDs" :> passTd)
        @@ ("FG Attempts" :> CountStat(grp, "Field Goal"))
        @@ ("FG Made" :> CountOutcome(grp, "Field Goal", "Made"))
        @@ ("FG Attempt Yards (Total)" :> SumStat(grp, "Field Goal", "yards"))
        @@ ("Forced Fumbles" :> CountStat(grp, "Forced Fumble"))
        @@ ("Sacks" :> CountStat(grp, "Sack"))
        @@ ("Interceptions" :> CountStat(grp, "Interception"))
        @@ ("Tackles" :> CountStat(grp, "Tackle"))
        @@ ("Return Yards" :> SumStat(grp, "Return", "yards"))
        @@ ("Defensive TDs" :> defTd)
        @@ ("Touchdowns (Total)" :> recTd + rushTd + passTd + defTd)

FootballAggregateTotals(df) ==
    IF "sport" \notin df.cols THEN Raises("KeyError")
    ELSE IF OfSport(df, FootballName) = <<>> THEN EmptyTotals
    ELSE IF ~(FootballIndexed \subseteq df.cols) THEN Raises("KeyError")
    ELSE IF "touchdown" \notin df.cols THEN Raises("AttributeError")
    ELSE LET rows == OfSport(df, FootballName)
             norm == [i \in DOMAIN rows |-> FootballNormalize(rows[i])]
             grouped == Groups(norm)
         IN  Totals([i \in DOMAIN grouped |->
                        FootballTotalsRow(grouped[i].key, grouped[i].grp)])

(* ------------------------------- Soccer ------------------------------- *)
SoccerIndexed ==
    {"sport", "player_key", "first_name", "last_name", "number", "positions",
     "stat_type", "outcome"}

\* df.get(col, default).fillna(...): a missing column reads the scalar
\* default, which has no fillna
SoccerDefaulted == {"on_target", "goal", "card"}

SoccerNormalize(row) ==
    [row EXCEPT !["on_target"] = Num0(@), !["goal"] = Num0(@),
                !["card"] = IF IsNull(@) THEN "None" ELSE Val(@)]

\* (foul_df["card"] == card).sum()
CountCard(grp, card) ==
    Len(SelectSeq(Matching(grp, "Foul"), LAMBDA row : row["card"] = card))

SoccerTotalsRow(key, grp) ==
    LET attempted == CountStat(grp, "Pass")
        completed == CountOutcome(grp, "Pass", "Complete")
    IN  IdentityColumns(key, grp)
        @@ ("Shots" :> CountStat(grp, "Shot"))
        @@ ("Shots on Target" :> SumStat(grp, "Shot", "on_target"))
        @@ ("Goals" :> SumStat(grp, "Shot", "goal"))
        @@ ("Passes Attempted" :> attempted)
        @@ ("Passes Completed" :> completed)
        @@ ("Assists" :> CountStat(grp, "Assist"))
        @@ ("Tackles" :> CountStat(grp, "Tackle"))
        @@ ("Interceptions" :> CountStat(grp, "Interception"))
        @@ ("Saves" :> CountStat(grp, "Save"))
        @@ ("Fouls" :> CountStat(grp, "Foul"))
        @@ ("Yellow Cards" :> CountCard(grp, "Yellow"))
        @@ ("Red Cards" :> CountCard(grp, "Red"))
        @@ ("Pass Completion %" :> Pct(completed, attempted))

SoccerAggregateTotals(df) ==
    IF "sport" \notin df.cols THEN Raises("KeyError")
    ELSE IF OfSport(df, SoccerName) = <<>> THEN EmptyTotals
    ELSE IF ~(SoccerDefaulted \subseteq df.cols) THEN Raises("AttributeError")
    ELSE IF ~(SoccerIndexed \subseteq df.cols) THEN Raises("KeyError")
    ELSE LET rows == OfSport(df, SoccerName)
             norm == [i \in DOMAIN rows |-> SoccerNormalize(rows[i])]
             grouped == Groups(norm)
         IN  Totals([i \in DOMAIN grouped |->
                        SoccerTotalsRow(grouped[i].key, grouped[i].grp)])

(* ------------------------------ Lacrosse ------------------------------ *)
LacrosseIndexed ==
    {"sport", "player_key", "first_name", "last_name", "number", "positions",
     "stat_type", "outcome"}

LacrosseDefaulted == {"on_target", "penalty_minutes", "minutes"}

LacrosseNormalize(row) ==
    [row EXCEPT !["on_target"] = Num0(@), !["penalty_minutes"] = Num0(@),
                !["minutes"] = Num0(@)]

\* round((goals_allowed * 48) / minutes, 2) if minutes > 0 else 0.0, in hundredths
Gaa(goals_allowed, minutes) ==
    IF minutes > 0 THEN RoundHalfEven(100 * goals_allowed * 48, minutes) ELSE 0

LacrosseTotalsRow(key, grp) ==
    LET goals == CountStat(grp, "Goal")
        shots == CountStat(grp, "Shot")
        sog == SumStat(grp, "Shot", "on_target")
        assists == CountStat(grp, "Assist")
        fo == CountStat(grp, "Faceoff")
        won == CountOutcome(grp, "Faceoff", "Win")
        takeaways == CountStat(grp, "Takeaway")
        interceptions == CountStat(grp, "Interception")
        saves == CountStat(grp, "Save")
        allowed == CountStat(grp, "Goal Allowed")
        minutes == SumStat(grp, "Goalie Minutes", "minutes")
        sog_faced == saves + allowed
    IN  IdentityColumns(key, grp)
        @@ ("Goals" :> goals)
        @@ ("Shots" :> shots)
        @@ ("Shots on Goal" :> sog)
        @@ ("Assists" :> assists)
        @@ ("Points" :> goals + assists)
        @@ ("Ground Balls" :> CountStat(grp, "Ground Ball"))
        @@ ("Faceoffs Attempted" :> fo)
        @@ ("Faceoffs Won" :> won)
        @@ ("Faceoff %" :> Pct(won, fo))
        @@ ("Takeaways" :> takeaways)
        @@ ("Interceptions" :> interceptions)
        @@ ("Caused Turnovers" :> takeaways + interceptions)
        @@ ("Turnovers" :> CountStat(grp, "Turnover"))
        @@ ("Penalties" :> CountStat(grp, "Penalty"))
        @@ ("Penalty Minutes" :> SumStat(grp, "Penalty", "penalty_minutes"))
        @@ ("Saves" :> saves)
        @@ ("Goals Allowed" :> allowed)
        @@ ("Minutes" :> minutes)
        @@ ("Shots on Goal Faced" :> sog_faced)
        @@ ("Save %" :> Pct(saves, sog_faced))
        @@ ("GAA" :> Gaa(allowed, minutes))
        @@ ("Shooting %" :> Pct(goals, sog))
        @@ ("SOG Rate %" :> Pct(sog, shots))

LacrosseAggregateTotals(df) ==
    IF "sport" \notin df.cols THEN Raises("KeyError")
    ELSE IF OfSport(df, LacrosseName) = <<>> THEN EmptyTotals
    ELSE IF ~(LacrosseDefaulted \subseteq df.cols) THEN Raises("AttributeError")
    ELSE IF ~(LacrosseIndexed \subseteq df.cols) THEN Raises("KeyError")
    ELSE LET rows == OfSport(df, LacrosseName)
             norm == [i \in DOMAIN rows |-> LacrosseNormalize(rows[i])]
             grouped == Groups(norm)
         IN  Totals([i \in DOMAIN grouped |->
                        LacrosseTotalsRow(grouped[i].key, grouped[i].grp)])

\* SPORTS[sport].aggregate_totals(logs), called on a copy of the log
AggregateTotals(sport, df) ==
    CASE sport = FootballName -> FootballAggregateTotals(Copy(df))
      [] sport = SoccerName -> SoccerAggregateTotals(Copy(df))
      [] sport = LacrosseName -> LacrosseAggregateTotals(Copy(df))
      [] OTHER -> StubAggregateTotals(df)

\* LogsAfterAggregate of a call that normalizes the caller's frame in place
LogsNormalizedInPlace(sport, df) ==
    [df EXCEPT !.rows =
        [i \in DOMAIN df.rows |->
            [c \in DOMAIN df.rows[i] |->
                IF c \in {"yards", "touchdown", "on_target", "goal"}
                THEN Some(Num0(df.rows[i][c]))
                ELSE df.rows[i][c]]]]

\* the session log after aggregate_totals(logs) returns: the call works on
\* df = logs.copy() and on the filtered selection, never on logs itself
LogsAfterAggregate(sport, df) == df

(***************************************************************************)
(* Game creation inputs                                                    *)
(***************************************************************************)
UrlPrefix == "/spreadsheets/d/"
IdChars == "abcdefghijklmnopqrstuvwxyzABCDEFGHIJKLMNOPQRSTUVWXYZ0123456789-_"

IdCharSet == {SubSeq(IdChars, i, i) : i \in 1..Len(IdChars)}
IsIdChar(c) == c \in IdCharSet

\* the longest run of id characters at the head of s
RECURSIVE IdPrefix(_)
IdPrefix(s) ==
    IF Len(s) > 0 /\ IsIdChar(SubSeq(s, 1, 1))
    THEN SubSeq(s, 1, 1) \o IdPrefix(SubSeq(s, 2, Len(s)))
    ELSE ""

\* the positions where re.search(r"/spreadsheets/d/([a-zA-Z0-9\-_]+)") can match
UrlMatches(s) ==
    {i \in 1..Len(s) :
        /\ i + Len(UrlPrefix) <= Len(s)
        /\ SubSeq(s, i, i + Len(UrlPrefix) - 1) = UrlPrefix
        /\ IsIdChar(SubSeq(s, i + Len(UrlPrefix), i + Len(UrlPrefix)))}

\* m.group(1) if m else url_or_id.strip()
SearchSheetId(s) ==
    IF UrlMatches(s) # {}
    THEN LET i == CHOOSE i \in UrlMatches(s) : \A j \in UrlMatches(s) : i <= j
         IN  IdPrefix(SubSeq(s, i + Len(UrlPrefix), Len(s)))
    ELSE Strip(s)

\* parse_sheet_id_from_url; the results for the input URLs are tabulated once
SheetIdTable == [s \in Urls |-> SearchSheetId(s)]
ParseSheetIdFromUrl(s) ==
    IF s \in DOMAIN SheetIdTable THEN SheetIdTable[s] ELSE SearchSheetId(s)

Pad2(n) == IF n < 10 THEN "0" \o ToString(n) ELSE ToString(n)

\* "%Y-%m-%d"
FormatDate(d) == ToString(d.year) \o "-" \o Pad2(d.month) \o "-" \o Pad2(d.day)

\* game_date.strftime("%Y-%m-%d"); the results for the input dates are tabulated once
DateTable == [d \in Dates |-> FormatDate(d)]
Strftime(d) == IF d \in DOMAIN DateTable THEN DateTable[d] ELSE FormatDate(d)

(***************************************************************************)
(* The sheets the model starts with, and the CSV files a user may upload   *)
(***************************************************************************)
RosterHeader == {ColFirst, ColLast, ColNumber, ColPositions}

RawRow(first, last, number, positions) ==
    (ColFirst :> first) @@ (ColLast :> last) @@ (ColNumber :> number)
    @@ (ColPositions :> positions)

Worksheet(title, header, rows) == [title |-> title, header |-> header, rows |-> rows]

\* S1: a "Roster" tab with two players.  S2: no "Roster" tab, the first tab
\* holds one player whose number is no number.  S3: a roster without its
\* positions column.
InitialSheets ==
    ("S1" :> <<Worksheet("Roster", RosterHeader,
                         <<RawRow("Al", "Bo", RawInt(12), "QB"),
                           RawRow("Cy", "Di", RawInt(7), "WR")>>)>>)
    @@ ("S2" :> <<Worksheet("Sheet1", RosterHeader,
                            <<RawRow("Ed", "Fa", RawText("x"), "K")>>)>>)
    @@ ("S3" :> <<Worksheet("Sheet1", RosterHeader \ {ColPositions},
                            <<[c \in RosterHeader \ {ColPositions} |->
                                 RawRow("Gi", "Ho", RawInt(3), "K")[c]]>>)>>)

\* the same players as S1 with another position for the first: a roster
\* replaced in the middle of a game
CsvSwap ==
    [cols |-> RosterHeader,
     rows |-> <<RawRow("Al", "Bo", RawInt(12), "WR"),
                RawRow("Cy", "Di", RawInt(7), "WR")>>]

\* two rows that format to one player_key
CsvDup ==
    [cols |-> RosterHeader,
     rows |-> <<RawRow("Al", "Bo", RawInt(12), "QB"),
                RawRow("Al", "Bo", RawInt(12), "K")>>]

\* two rows that format to one player_key, and another player
CsvTrio ==
    [cols |-> RosterHeader,
     rows |-> <<RawRow("Al", "Bo", RawInt(12), "QB"),
                RawRow("Al", "Bo", RawInt(12), "K"),
                RawRow("Cy", "Di", RawInt(7), "WR")>>]

\* a CSV without its positions column
CsvMissing ==
    [cols |-> RosterHeader \ {ColPositions},
     rows |-> <<[c \in RosterHeader \ {ColPositions} |->
                   RawRow("Al", "Bo", RawInt(12), "QB")[c]]>>]

\* a CSV with the four expected columns and one more
ColExtra == "Grade"
CsvExtra ==
    [cols |-> RosterHeader \cup {ColExtra},
     rows |-> <<[c \in RosterHeader \cup {ColExtra} |->
                   IF c = ColExtra THEN RawText("11")
                   ELSE RawRow("Al", "Bo", RawInt(12), "QB")[c]]>>]

\* a CSV of players that are not in S1
CsvOther ==
    [cols |-> RosterHeader,
     rows |-> <<RawRow("Ed", "Fa", RawInt(4), "K")>>]

\* a CSV whose number has a fraction
CsvFrac ==
    [cols |-> RosterHeader, rows |-> <<RawRow("Al", "Bo", RawFrac(12), "QB")>>]

(***************************************************************************)
(* CSV roster import and save                                              *)
(***************************************************************************)
\* any(col not in new_roster.columns for col in expected)
CsvRejected(csv) == \E col \in RosterHeader : col \notin csv.cols

\* pd.to_numeric(new_roster["Player Number"], errors="coerce").astype("Int64")
CsvCastRaises(csv) ==
    \E i \in DOMAIN csv.rows : ~CanCastInt64(ToNumericRaw(csv.rows[i][ColNumber]))

\* df.astype(str) of a number cell, as get_all_records reads it back
WrittenNumber(c) ==
    LET n == AsInt64(ToNumericRaw(c))
    IN  IF IsNull(n) THEN RawText("<NA>") ELSE RawInt(Val(n))

\* upsert_ws_with_df(sh, title, df) for the roster: the tab of that title is
\* deleted and a new one is added after the others
WithoutTitle(sh, title) == SelectSeq(sh, LAMBDA ws : ws.title # title)

UpsertRoster(sh, csv) ==
    WithoutTitle(sh, "Roster")
    \o <<Worksheet("Roster", csv.cols,
                   [i \in DOMAIN csv.rows |->
                      [c \in csv.cols |->
                         IF c = ColNumber THEN WrittenNumber(csv.rows[i][c])
                         ELSE csv.rows[i][c]]])>>

\* f"{g['sport']} {g['date']} vs {g['opponent']}"
Stamp(g) == g.sport \o " " \o g.date \o " vs " \o g.opponent
TotalsTitle(g) == Stamp(g) \o " (Totals)"
LogTitle(g) == Stamp(g) \o " (Log)"

\* the columns of a totals frame
TotalsColumns(t) == UNION {DOMAIN t.rows[i] : i \in DOMAIN t.rows}

\* the titles save_to_google_sheets finds in the spreadsheet and deletes
\* (for title in (totals_title, log_title): if title in existing); a save
\* that fails to open the spreadsheet deletes nothing
DeletedTitles(sh, g, fault) ==
    IF fault = "open" THEN {}
    ELSE {t \in {TotalsTitle(g), LogTitle(g)} : \E i \in DOMAIN sh : sh[i].title = t}

\* SaveSheet that adds its tabs without deleting the tabs of the same titles
SaveSheetAppends(sh, g, totals, log, fault) ==
    LET withTotals ==
            IF totals.rows # <<>>
            THEN sh \o <<Worksheet(TotalsTitle(g), TotalsColumns(totals), totals.rows)>>
            ELSE sh
    IN  CASE fault = "open" -> sh
          [] fault = "deleted" -> sh
          [] fault = "totals" -> withTotals
          [] OTHER -> withTotals \o <<Worksheet(LogTitle(g), log.cols, log.rows)>>

\* save_to_google_sheets, cut short by a failing request: "open" before
\* anything is written, "deleted" after the old tabs are deleted, "totals"
\* after the Totals tab is written, "none" when every request succeeds
SaveSheet(sh, g, totals, log, fault) ==
    LET cleared == WithoutTitle(WithoutTitle(sh, TotalsTitle(g)), LogTitle(g))
        withTotals ==
            IF totals.rows # <<>>
            THEN cleared \o <<Worksheet(TotalsTitle(g), TotalsColumns(totals), totals.rows)>>
            ELSE cleared
    IN  CASE fault = "open" -> sh
          [] fault = "deleted" -> cleared
          [] fault = "totals" -> withTotals
          [] OTHER -> withTotals \o <<Worksheet(LogTitle(g), log.cols, log.rows)>>

(***************************************************************************)
(* The script run                                                          *)
(***************************************************************************)
\* sport = st.session_state.game["sport"] if st.session_state.game else "Football"
SportOf(g) == IF IsNull(g) THEN FootballName ELSE Val(g).sport

\* "Running Log & Totals": totals are computed when the log is not empty
RenderedTotals(g, l) == IF IsEmpty(l) THEN None ELSE Some(AggregateTotals(SportOf(g), l))
RenderedLogs(g, l) == IF IsEmpty(l) THEN l ELSE LogsAfterAggregate(SportOf(g), l)

NoSubmit == [submitted |-> FALSE, new_rows |-> <<>>]

\* AppendRows that puts the new rows in front of the log
AppendRowsInFront(l, result) ==
    IF result.submitted /\ result.new_rows # <<>>
    THEN Concat(FrameOf(result.new_rows), l)
    ELSE l

\* if result.get("submitted") and result.get("new_rows"): pd.concat(...)
AppendRows(l, result) ==
    IF result.submitted /\ result.new_rows # <<>>
    THEN Concat(l, FrameOf(result.new_rows))
    ELSE l

\* the locals a press of "Add Stat" can leave, for the stat types of inp
FormChoices(sport, r, inp) ==
    IF sport \in {FootballName, SoccerName, LacrosseName}
    THEN {w \in FormLocals(sport, r, inp) : w.stat_type \in inp.stats}
    ELSE {[stat_type |-> "not implemented"]}

\* datetime.now() does not run backwards within a log
LastTimestamp(l) == IF l.rows = <<>> THEN 0 ELSE l.rows[Len(l.rows)]["timestamp"]

Init ==
    /\ game = None
    /\ roster = <<>>
    /\ logs = EmptyFrame
    /\ sheets = InitialSheets
    /\ run = [action |-> "Start", outcome |-> "ok", input |-> None,
              result |-> NoSubmit]

\* CreateGame that keeps the log of the previous game
CreateGameKeepsLogs(inp) ==
    \E opp \in inp.opponents, d \in inp.dates :
      LET opponent == Strip(opp)
          date == Strftime(d)
      IN
      \E url \in inp.urls :
        LET id == ParseSheetIdFromUrl(url)
            read == IF id \in DOMAIN sheets THEN ReadRosterDf(sheets[id])
                    ELSE [outcome |-> "raise"]
        IN
        \E up \in inp.net, sport \in inp.sports :
          LET rd == IF up THEN read ELSE [outcome |-> "raise"]
              outcome == IF rd.outcome = "raise" THEN "error" ELSE rd.outcome
              g1 == IF outcome = "ok"
                    THEN Some([sport |-> sport, date |-> date,
                               opponent |-> opponent, sheet_id |-> id])
                    ELSE game
              l1 == logs
          IN  /\ game' = g1
              /\ roster' = IF outcome = "ok" THEN rd.df ELSE roster
              /\ logs' = IF outcome = "stop" THEN l1 ELSE RenderedLogs(g1, l1)
              /\ UNCHANGED sheets
              /\ run' = [action |-> "CreateGame", outcome |-> outcome,
                         input |-> IF outcome = "ok"
                                   THEN Some([sport |-> sport, date |-> d,
                                              opponent |-> opp, sheet_url |-> url])
                                   ELSE None,
                         result |-> NoSubmit]

\* CreateGame that stores the entered game before the roster is read, so a
\* failed read leaves the new game next to the old roster and log
CreateGameStoresGameFirst(inp) ==
    \E opp \in inp.opponents, d \in inp.dates :
      LET opponent == Strip(opp)
          date == Strftime(d)
      IN
      \E url \in inp.urls :
        LET id == ParseSheetIdFromUrl(url)
            read == IF id \in DOMAIN sheets THEN ReadRosterDf(sheets[id])
                    ELSE [outcome |-> "raise"]
        IN
        \E up \in inp.net, sport \in inp.sports :
          LET rd == IF up THEN read ELSE [outcome |-> "raise"]
              outcome == IF rd.outcome = "raise" THEN "error" ELSE rd.outcome
              g1 == Some([sport |-> sport, date |-> date,
                          opponent |-> opponent, sheet_id |-> id])
              l1 == IF outcome = "ok"
                    THEN [cols |-> InitialLogColumns, rows |-> <<>>]
                    ELSE logs
          IN  /\ game' = g1
              /\ roster' = IF outcome = "ok" THEN rd.df ELSE roster
              /\ logs' = IF outcome = "stop" THEN l1 ELSE RenderedLogs(g1, l1)
              /\ UNCHANGED sheets
              /\ run' = [action |-> "CreateGame", outcome |-> outcome,
                         input |-> IF outcome = "ok"
                                   THEN Some([sport |-> sport, date |-> d,
                                              opponent |-> opp, sheet_url |-> url])
                                   ELSE None,
                         result |-> NoSubmit]

\* "Create Game / Load Roster"
CreateGame(inp) ==
    \E opp \in inp.opponents, d \in inp.dates :
      LET opponent == Strip(opp)
          date == Strftime(d)
      IN
      \E url \in inp.urls :
        LET id == ParseSheetIdFromUrl(url)
            read == IF id \in DOMAIN sheets THEN ReadRosterDf(sheets[id])
                    ELSE [outcome |-> "raise"]
        IN
        \E up \in inp.net, sport \in inp.sports :
          LET rd == IF up THEN read ELSE [outcome |-> "raise"]
              outcome == IF rd.outcome = "raise" THEN "error" ELSE rd.outcome
              g1 == IF outcome = "ok"
                    THEN Some([sport |-> sport, date |-> date,
                               opponent |-> opponent, sheet_id |-> id])
                    ELSE game
              l1 == IF outcome = "ok"
                    THEN [cols |-> InitialLogColumns, rows |-> <<>>]
                    ELSE logs
          IN  /\ game' = g1
              /\ roster' = IF outcome = "ok" THEN rd.df ELSE roster
              /\ logs' = IF outcome = "stop" THEN l1 ELSE RenderedLogs(g1, l1)
              /\ UNCHANGED sheets
              /\ run' = [action |-> "CreateGame", outcome |-> outcome,
                         input |-> IF outcome = "ok"
                                   THEN Some([sport |-> sport, date |-> d,
                                              opponent |-> opp, sheet_url |-> url])
                                   ELSE None,
                         result |-> NoSubmit]

\* ImportRoster that drops the logged events of the players the new roster
\* no longer holds
ImportRosterPrunesLog(inp) ==
    /\ ~IsNull(game)
    /\ \E csv \in inp.csvs, up \in inp.net :
        LET id == Val(game).sheet_id
            opened == up /\ id \in DOMAIN sheets
            written == ~CsvRejected(csv) /\ ~CsvCastRaises(csv) /\ opened
            sh1 == IF written THEN UpsertRoster(sheets[id], csv) ELSE <<>>
            rd == IF written THEN ReadRosterDf(sh1) ELSE [outcome |-> "raise"]
            outcome == IF CsvRejected(csv) THEN "rejected"
                       ELSE IF rd.outcome = "raise" THEN "error" ELSE rd.outcome
            kept == IF outcome = "ok"
                    THEN [logs EXCEPT !.rows =
                            SelectSeq(logs.rows,
                                      LAMBDA row : row["player_key"] \in Range(PlayerKeys(rd.df)))]
                    ELSE logs
        IN  /\ roster' = IF outcome = "ok" THEN rd.df ELSE roster
            /\ sheets' = IF written THEN [sheets EXCEPT ![id] = sh1] ELSE sheets
            /\ game' = game
            /\ logs' = kept
            /\ run' = [action |-> "ImportRoster", outcome |-> outcome,
                       input |-> Some(csv), result |-> NoSubmit]

\* "Write to Google Sheet as 'Roster'" on an uploaded CSV
ImportRoster(inp) ==
    /\ ~IsNull(game)
    /\ \E csv \in inp.csvs, up \in inp.net :
        LET id == Val(game).sheet_id
            opened == up /\ id \in DOMAIN sheets
            written == ~CsvRejected(csv) /\ ~CsvCastRaises(csv) /\ opened
            sh1 == IF written THEN UpsertRoster(sheets[id], csv) ELSE <<>>
            rd == IF written THEN ReadRosterDf(sh1) ELSE [outcome |-> "raise"]
            outcome == IF CsvRejected(csv) THEN "rejected"
                       ELSE IF rd.outcome = "raise" THEN "error" ELSE rd.outcome
        IN  /\ roster' = IF outcome = "ok" THEN rd.df ELSE roster
            /\ sheets' = IF written THEN [sheets EXCEPT ![id] = sh1] ELSE sheets
            /\ game' = game
            /\ logs' = IF outcome = "stop" THEN logs ELSE RenderedLogs(game, logs)
            /\ run' = [action |-> "ImportRoster", outcome |-> outcome,
                       input |-> Some(csv), result |-> NoSubmit]

\* how a run of build_form can end: the form of a sport that is not
\* implemented places its submit button outside any st.form, which Streamlit
\* refuses with an exception before the method returns
BuildFormOutcomes(sport) ==
    IF sport \in {FootballName, SoccerName, LacrosseName} THEN {"ok"}
    ELSE {"ok", "error"}

\* "Add Stat": build_form, the append, and the rerun that renders the totals
Submit(inp) ==
    /\ ~IsNull(game)
    /\ roster # <<>>
    /\ Len(logs.rows) < inp.max_rows
    /\ \E w \in FormChoices(Val(game).sport, roster, inp), now \in inp.clock,
          outcome \in BuildFormOutcomes(Val(game).sport) :
        /\ now >= LastTimestamp(logs)
        /\ LET result == IF outcome = "ok"
                         THEN BuildForm(Val(game).sport, roster, w, now)
                         ELSE NoSubmit
               l1 == AppendRows(logs, result)
           IN  /\ logs' = RenderedLogs(game, l1)
               /\ run' = [action |-> "Submit", outcome |-> outcome, input |-> Some(w),
                          result |-> result]
        /\ UNCHANGED <<game, roster, sheets>>

\* any other interaction: the script runs again and changes nothing
Rerun ==
    /\ logs' = RenderedLogs(game, logs)
    /\ run' = [action |-> "Rerun", outcome |-> "ok", input |-> None,
               result |-> NoSubmit]
    /\ UNCHANGED <<game, roster, sheets>>

\* "Save to Google Sheet": the button exists once the totals are rendered
Save(inp) ==
    /\ ~IsEmpty(logs)
    /\ ~IsNull(game)
    /\ LET id == Val(game).sheet_id
           totals == AggregateTotals(SportOf(game), logs)
           l1 == RenderedLogs(game, logs)
       IN  /\ totals.outcome = "ok"
           /\ Len(SaveSheet(sheets[id], Val(game), totals, Copy(l1), "none")) <= inp.max_tabs
           /\ \E fault \in inp.save_faults :
                /\ sheets' = [sheets EXCEPT
                                 ![id] = SaveSheet(@, Val(game), totals, Copy(l1), fault)]
                /\ logs' = l1
                /\ run' = [action |-> "Save",
                           outcome |-> IF fault = "none" THEN "ok" ELSE "error",
                           input |-> Some(DeletedTitles(sheets[id], Val(game), fault)),
                           result |-> NoSubmit]
    /\ UNCHANGED <<game, roster>>

\* the export page: it reads a sheet and keeps no session state
Export ==
    /\ run' = [action |-> "Export", outcome |-> "ok", input |-> None,
               result |-> NoSubmit]
    /\ UNCHANGED <<game, roster, logs, sheets>>

Next(inp) ==
    \/ CreateGame(inp)
    \/ ImportRoster(inp)
    \/ Submit(inp)
    \/ Rerun
    \/ Save(inp)
    \/ Export

(***************************************************************************)
(* Bounds and the inputs of the checked specifications                     *)
(***************************************************************************)
\* a form is submitted while the log has fewer rows than this
MaxLogRows == 2

\* the same, where every stat type and every input value is tried
MaxDeriveRows == 1

\* a save is explored while the spreadsheet holds no more tabs than this
MaxTabs == 3

\* every stat type of the three implemented forms
AllStats ==
    {"Reception", "Run", "Punt", "Fumble", "Pass", "Field Goal", "Forced Fumble",
     "Sack", "Tackle", "Interception", "Return", "Shot", "Save", "Foul", "Goal",
     "Assist", "Ground Ball", "Takeaway", "Turnover", "Faceoff", "Penalty",
     "Goalie Minutes", "Goal Allowed"}

\* a session of few stat types in which saves succeed
BaseInputs ==
    [sports |-> {FootballName, SoccerName, LacrosseName, "Baseball"},
     dates |-> Dates,
     opponents |-> Opponents,
     urls |-> {"docs.google.com/spreadsheets/d/S1/edit", "S3"},
     net |-> BOOLEAN,
     csvs |-> {CsvSwap, CsvMissing},
     save_faults |-> {"none"},
     clock |-> {1},
     notes |-> {""},
     yards |-> {5},
     fg_yards |-> {40},
     penalty_halves |-> {2},
     minutes |-> {12},
     stats |-> {"Tackle", "Goal"},
     max_rows |-> MaxLogRows,
     max_tabs |-> MaxTabs]

\* one submission of every form, with every stat type and every option
DeriveInputs ==
    [BaseInputs EXCEPT !.urls = {"docs.google.com/spreadsheets/d/S1/edit", " S2 ", "S9"},
                       !.net = {TRUE}, !.csvs = {CsvSwap}, !.save_faults = {"open"},
                       !.notes = Notes, !.yards = {-3, 7}, !.stats = AllStats,
                       !.max_rows = MaxDeriveRows]

\* two submissions of the stat types whose totals sum and compare values
OrderInputs ==
    [BaseInputs EXCEPT !.sports = {FootballName, SoccerName, LacrosseName},
                       !.net = {TRUE}, !.save_faults = {"open"}, !.yards = {5, 7},
                       !.stats = {"Run", "Pass", "Shot", "Foul", "Goal"}]

Spec == Init /\ [][Next(BaseInputs)]_vars

\* the spreadsheet of the save profile holds no more tabs than this: the
\* roster tab and two generations of a game's two tabs
MaxSaveTabs == 5

\* one Football game on one spreadsheet, saved again and again, with
\* requests that fail at each step of the save
SaveInputs ==
    [BaseInputs EXCEPT !.sports = {FootballName},
                       !.urls = {"docs.google.com/spreadsheets/d/S1/edit"},
                       !.net = {TRUE},
                       !.csvs = {CsvSwap},
                       !.save_faults = {"none", "open", "deleted", "totals"},
                       !.stats = {"Tackle"},
                       !.max_tabs = MaxSaveTabs]

SpecSave == Init /\ [][Next(SaveInputs)]_vars

\* one Football game whose roster is replaced by uploaded tables of every
\* kind, with and without a reachable spreadsheet
ImportInputs ==
    [BaseInputs EXCEPT !.sports = {FootballName},
                       !.urls = {"docs.google.com/spreadsheets/d/S1/edit"},
                       !.csvs = {CsvSwap, CsvMissing, CsvExtra, CsvFrac, CsvOther},
                       !.save_faults = {"open"},
                       !.stats = {"Tackle"}]

SpecImport == Init /\ [][Next(ImportInputs)]_vars

\* the submissions that can pair two players, on rosters with player_keys
\* that occur twice
PairInputs ==
    [BaseInputs EXCEPT !.sports = {FootballName, SoccerName, LacrosseName},
                       !.urls = {"docs.google.com/spreadsheets/d/S1/edit"},
                       !.net = {TRUE},
                       !.csvs = {CsvDup, CsvTrio},
                       !.save_faults = {"open"},
                       !.stats = {"Pass", "Goal"},
                       !.max_rows = MaxDeriveRows]

SpecPairs == Init /\ [][Next(PairInputs)]_vars
SpecDerive == Init /\ [][Next(DeriveInputs)]_vars
SpecOrder == Init /\ [][Next(OrderInputs)]_vars

(***************************************************************************)
(* Derivation of events (build_form), checked under SpecDerive             *)
(***************************************************************************)
\* the last run was a press of "Add Stat" in a game of this sport
SubmittedIn(sport) == run.action = "Submit" /\ SportOf(game) = sport

\* the form values of that press, and the events build_form returned for it
W == Val(run.input)
Rows == run.result.new_rows

\* row i of the returned events is an event of this stat type for this player
IsEvent(i, st, key) ==
    /\ i \in DOMAIN Rows
    /\ Rows[i]["stat_type"] = st
    /\ Rows[i]["player_key"] = key

\* the log ends with the returned events
Committed ==
    /\ Len(logs.rows) >= Len(Rows)
    /\ \A i \in DOMAIN Rows :
          logs.rows[Len(logs.rows) - Len(Rows) + i] = Reindex(Rows[i], logs.cols)

\* a completed football pass with pairing enabled and a receiver of the roster
FbPairedPass ==
    /\ SubmittedIn(FootballName)
    /\ FbPairs(W)
    /\ Resolves(roster, Val(W.fb_receiver))

\* C1: a completed football Pass by P with pairing enabled and a receiver R
\* of the roster returns exactly two events, Pass(P) then Reception(R), and
\* the Reception carries the yards and the touchdown flag of the Pass.
C1_FootballPassDerivesReception ==
    FbPairedPass =>
        /\ Len(Rows) = 2
        /\ IsEvent(1, "Pass", W.player_key)
        /\ IsEvent(2, "Reception", Val(W.fb_receiver))
        /\ Rows[1]["yards"] = W.yards
        /\ Rows[2]["yards"] = Rows[1]["yards"]
        /\ Rows[1]["touchdown"] = Some(W.touchdown_val)
        /\ Rows[2]["touchdown"] = Rows[1]["touchdown"]

\* a paired touchdown pass of 7 yards has been submitted
C1_Witness ==
    /\ FbPairedPass
    /\ W.yards = Some(7)
    /\ W.touchdown_val = 1
    /\ Len(Rows) = 2
    /\ Committed

\* a soccer pass flagged as resulting in a goal, to a recipient of the roster
ScGoalPass ==
    /\ SubmittedIn(SoccerName)
    /\ W.stat_type = "Pass"
    /\ W.outcome = Some("Complete")
    /\ W.resulted_goal
    /\ Resolves(roster, Val(W.receiver_key))

\* a soccer pass that is incomplete or not flagged as resulting in a goal
ScPlainPass ==
    /\ SubmittedIn(SoccerName)
    /\ W.stat_type = "Pass"
    /\ (W.outcome = Some("Incomplete") \/ ~W.resulted_goal)

\* C2: a completed soccer Pass by P that resulted in a goal, to a recipient R
\* of the roster, returns exactly Pass(P), Assist(P), Shot(R) with
\* on_target = 1 and goal = 1; an incomplete or unflagged Pass returns
\* exactly one event.
C2_SoccerPassDerivesAssistAndShot ==
    /\ ScGoalPass =>
          /\ Len(Rows) = 3
          /\ IsEvent(1, "Pass", W.player_key)
          /\ IsEvent(2, "Assist", W.player_key)
          /\ IsEvent(3, "Shot", Val(W.receiver_key))
          /\ Rows[3]["on_target"] = Some(1)
          /\ Rows[3]["goal"] = Some(1)
    /\ ScPlainPass =>
          /\ Len(Rows) = 1
          /\ IsEvent(1, "Pass", W.player_key)

\* a goal-assisting pass has been submitted and its three events are in the log
C2_Witness ==
    /\ ScGoalPass
    /\ Val(W.receiver_key) # W.player_key
    /\ Len(Rows) = 3
    /\ Committed

\* a lacrosse goal
LcGoal == SubmittedIn(LacrosseName) /\ W.stat_type = "Goal"

\* C3: a lacrosse Goal by S with an assisting player A of the roster returns
\* exactly Goal(S), Shot(S) with on_target = 1, Assist(A); with assist "None"
\* it returns exactly Goal(S), Shot(S) and no Assist.
C3_LacrosseGoalDerivesShotAndAssist ==
    LcGoal =>
        /\ IsEvent(1, "Goal", W.player_key)
        /\ IsEvent(2, "Shot", W.player_key)
        /\ Rows[2]["on_target"] = Some(1)
        /\ IF Val(W.assist_key) = "None"
           THEN /\ Len(Rows) = 2
                /\ \A i \in DOMAIN Rows : Rows[i]["stat_type"] # "Assist"
           ELSE Resolves(roster, Val(W.assist_key)) =>
                    /\ Len(Rows) = 3
                    /\ IsEvent(3, "Assist", Val(W.assist_key))

\* an assisted goal has been submitted and its three events are in the log
C3_Witness ==
    /\ LcGoal
    /\ Val(W.assist_key) # "None"
    /\ Resolves(roster, Val(W.assist_key))
    /\ Len(Rows) = 3
    /\ Committed

\* the option selected for the paired player of the submission, if the form
\* showed one: the receiver, the recipient, the assisting player
PairedOption ==
    CASE SportOf(game) = FootballName -> W.fb_receiver
      [] SportOf(game) = SoccerName -> W.receiver_key
      [] SportOf(game) = LacrosseName -> W.assist_key
      [] OTHER -> None

\* the paired player of the submission is no player of the roster
PairedUnresolved ==
    /\ run.action = "Submit"
    /\ ~IsNull(PairedOption)
    /\ ~Resolves(roster, Val(PairedOption))

\* C4: when the paired player of a submission does not resolve in the
\* roster, build_form still returns, no returned event belongs to the
\* unresolved player, and the primary event of the submitting player is
\* returned first and committed to the log.
C4_UnresolvedPairIsDropped ==
    PairedUnresolved =>
        /\ run.result.submitted
        /\ IsEvent(1, W.stat_type, W.player_key)
        /\ \A i \in DOMAIN Rows :
              /\ Rows[i]["player_key"] # Val(PairedOption)
              /\ Rows[i]["player_key"] = W.player_key
        /\ Committed

\* a paired football pass was submitted while the roster had no other player
C4_Witness ==
    /\ PairedUnresolved
    /\ SubmittedIn(FootballName)
    /\ FbPairs(W)
    /\ Val(W.fb_receiver) = "No eligible receivers"
    /\ Len(Rows) = 1
    /\ Committed

(***************************************************************************)
(* Aggregation of the reachable logs                                       *)
(***************************************************************************)
\* a game is on and its log holds events
Logged == ~IsNull(game) /\ ~IsEmpty(logs)

\* the totals the page computes from the session log
SessionTotals == AggregateTotals(SportOf(game), logs)

\* the number of events of this player and stat type in the session log
Events(key, st) ==
    Cardinality({i \in DOMAIN logs.rows :
                    logs.rows[i]["player_key"] = key /\ logs.rows[i]["stat_type"] = st})

LoggedKeys == {logs.rows[i]["player_key"] : i \in DOMAIN logs.rows}

\* C5: in a Soccer or Lacrosse game every non-empty reachable log
\* aggregates to a totals result (no exception), also when no event carries
\* on_target, goal, card, penalty_minutes or minutes.
C5_AggregationNeverRaises ==
    (Logged /\ SportOf(game) \in {SoccerName, LacrosseName})
        => SessionTotals.outcome = "ok"

\* the totals row of a player
TotalsRowOf(t, key) == t.rows[CHOOSE i \in DOMAIN t.rows : t.rows[i]["player_key"] = key]

\* the events of this player that are shots on goal
ShotsOnGoal(key) ==
    Cardinality({i \in DOMAIN logs.rows :
                    /\ logs.rows[i]["player_key"] = key
                    /\ logs.rows[i]["stat_type"] = "Shot"
                    /\ "on_target" \in logs.cols
                    /\ logs.rows[i]["on_target"] = Some(1)})

\* every ratio column of the game's sport with its denominator, counted on
\* the session log
RatioDenominators(key) ==
    IF SportOf(game) = SoccerName
    THEN {<<"Pass Completion %", Events(key, "Pass")>>}
    ELSE {<<"Faceoff %", Events(key, "Faceoff")>>,
          <<"Save %", Events(key, "Save") + Events(key, "Goal Allowed")>>,
          <<"Shooting %", ShotsOnGoal(key)>>,
          <<"SOG Rate %", Events(key, "Shot")>>}

\* C6: for every player of a Soccer or Lacrosse log and every ratio column
\* whose denominator is 0 for that player, aggregate returns a result and
\* the ratio column of the player's row is 0.
C6_RatioZeroOnZeroDenominator ==
    (Logged /\ SportOf(game) \in {SoccerName, LacrosseName}) =>
        \A key \in LoggedKeys :
            \A rd \in RatioDenominators(key) :
                (rd[2] = 0) =>
                    /\ SessionTotals.outcome = "ok"
                    /\ TotalsRowOf(SessionTotals, key)[rd[1]] = 0

\* the permutations of 1..n
Perms(n) == {f \in [1..n -> 1..n] : \A i, j \in 1..n : f[i] = f[j] => i = j}

\* the log with its events in the order p
Permuted(df, p) == [df EXCEPT !.rows = [i \in DOMAIN df.rows |-> df.rows[p[i]]]]

IdentityNames == {"first_name", "last_name", "number", "positions"}

\* a totals row without its identity columns
StatColumns(row) == [c \in DOMAIN row \ IdentityNames |-> row[c]]

TotalsKeys(t) == {t.rows[i]["player_key"] : i \in DOMAIN t.rows}

\* two totals results agree on everything but the identity columns and the
\* order of the rows
SameStats(a, b) ==
    /\ a.outcome = b.outcome
    /\ a.outcome = "ok" =>
          /\ Len(a.rows) = Len(b.rows)
          /\ TotalsKeys(a) = TotalsKeys(b)
          /\ \A key \in TotalsKeys(a) :
                StatColumns(TotalsRowOf(a, key)) = StatColumns(TotalsRowOf(b, key))

\* all events of one player_key carry the same identity fields
IdentityConsistent(df) ==
    \A i, j \in DOMAIN df.rows :
        df.rows[i]["player_key"] = df.rows[j]["player_key"]
            => \A c \in IdentityNames : df.rows[i][c] = df.rows[j][c]

\* C7 as stated: aggregating any permutation of the events of a reachable
\* log yields the identical totals result, identity columns included.
C7_PermutationYieldsIdenticalTotals ==
    Logged =>
        \A p \in Perms(Len(logs.rows)) :
            AggregateTotals(SportOf(game), Permuted(logs, p)) = SessionTotals

\* C7, amended: aggregating any permutation of the events of a reachable
\* log yields the same rows with the same stat columns; the identity
\* columns are those of each player's first event in the given order, so
\* the whole result is identical when all events of every player_key carry
\* the same identity fields.
C7_PermutationYieldsSameStats ==
    Logged =>
        \A p \in Perms(Len(logs.rows)) :
            LET permuted == AggregateTotals(SportOf(game), Permuted(logs, p))
            IN  /\ SameStats(permuted, SessionTotals)
                /\ IdentityConsistent(logs) => permuted = SessionTotals

\* a log written across a roster replacement: two events of one player
\* carry different positions, the totals are computed, and one order of the
\* events gives other totals than the log's order
C7_Witness ==
    /\ Logged
    /\ SessionTotals.outcome = "ok"
    /\ ~IdentityConsistent(logs)
    /\ \E p \in Perms(Len(logs.rows)) :
          LET permuted == AggregateTotals(SportOf(game), Permuted(logs, p))
          IN  /\ permuted # SessionTotals
              /\ SameStats(permuted, SessionTotals)

AppendedExactly(old, events, new) ==
    /\ Len(new.rows) = Len(old.rows) + Len(events)
    /\ old.cols \subseteq new.cols
    /\ \A i \in DOMAIN old.rows :
          /\ \A c \in old.cols : new.rows[i][c] = old.rows[i][c]
          /\ \A c \in new.cols \ old.cols : new.rows[i][c] = None
    /\ \A j \in DOMAIN events :
          /\ DOMAIN events[j] \subseteq new.cols
          /\ \A c \in DOMAIN events[j] : new.rows[Len(old.rows) + j][c] = events[j][c]
          /\ \A c \in new.cols \ DOMAIN events[j] : new.rows[Len(old.rows) + j][c] = None

\* C9: but for a successful game creation, the only run that changes the
\* log is a form submission that returned events, and it sets the log to the
\* old log followed by exactly these events; roster import, rendering, save
\* and export leave the log unchanged.
C9_LogIsAppendOnly ==
    [][~(run'.action = "CreateGame" /\ run'.outcome = "ok") =>
          IF run'.action = "Submit" /\ run'.result.submitted
             /\ run'.result.new_rows # <<>>
          THEN AppendedExactly(logs, run'.result.new_rows, logs')
          ELSE logs' = logs]_vars

\* a submission has appended its events to a log that held other events
C9_Witness ==
    /\ run.action = "Submit"
    /\ Rows # <<>>
    /\ Len(logs.rows) > Len(Rows)
    /\ logs.rows[1] # logs.rows[Len(logs.rows)]
    /\ Committed

\* the last run created a game
GameCreated == run.action = "CreateGame" /\ run.outcome = "ok"

\* C10: right after a successful game creation the log is empty, the roster
\* is the roster read from the entered sheet, and the game holds the entered
\* sport, date, opponent and sheet.
C10_NewGameDiscardsSession ==
    GameCreated =>
        LET entered == Val(run.input)
            id == ParseSheetIdFromUrl(entered.sheet_url)
        IN  /\ logs.rows = <<>>
            /\ IsEmpty(logs)
            /\ id \in DOMAIN sheets
            /\ roster = ReadRosterDf(sheets[id]).df
            /\ game = Some([sport |-> entered.sport,
                            date |-> Strftime(entered.date),
                            opponent |-> Strip(entered.opponent),
                            sheet_id |-> id])

\* a Soccer game was created after a Football game of the same day and
\* opponent whose log had been saved: the session held that log before
C10_Witness ==
    /\ GameCreated
    /\ logs.rows = <<>>
    /\ Val(game).sport = SoccerName
    /\ \E i \in DOMAIN sheets["S1"] :
          /\ sheets["S1"][i].title = LogTitle([Val(game) EXCEPT !.sport = FootballName])
          /\ sheets["S1"][i].rows # <<>>

\* the last run tried to create a game and the roster load failed: "error"
\* is the exception reported by the page (sheet unreachable, number column
\* that cannot be cast), "stop" the st.stop() of a missing roster column
CreationFailed == run.action = "CreateGame" /\ run.outcome \in {"error", "stop"}

\* C11: a game creation whose roster load fails leaves the game, the roster
\* and the log exactly as they were before the attempt.
C11_FailedCreationIsAtomic ==
    [][(run'.action = "CreateGame" /\ run'.outcome \in {"error", "stop"}) =>
          /\ game' = game
          /\ roster' = roster
          /\ logs' = logs]_vars

\* a creation stopped on a roster without its positions column while a game
\* with a roster and logged events was on
C11_Witness ==
    /\ CreationFailed
    /\ run.outcome = "stop"
    /\ ~IsNull(game)
    /\ roster # <<>>
    /\ logs.rows # <<>>


(***************************************************************************)
(* aggregate_totals as a function of the log: logs are built event by      *)
(* event from the rows the forms return, and every sport's aggregate is    *)
(* applied to each of them                                                 *)
(***************************************************************************)
\* a roster of three players: two share a last name, and the order of the
\* player keys is not the order of the names
TabSheet ==
    <<Worksheet("Roster", RosterHeader,
                <<RawRow("Al", "Zo", RawInt(12), "QB"),
                  RawRow("Cy", "Di", RawInt(7), "WR"),
                  RawRow("Bea", "Di", RawInt(9), "K")>>)>>

\* a roster in which two rows format to one player_key
DupSheet ==
    <<Worksheet("Roster", RosterHeader,
                <<RawRow("Al", "Zo", RawInt(12), "QB"),
                  RawRow("Al", "Zo", RawInt(12), "K")>>)>>

TabRoster == ReadRosterDf(TabSheet).df
DupRoster == ReadRosterDf(DupSheet).df

\* the log of a created game
CreatedLog == [cols |-> InitialLogColumns, rows |-> <<>>]

\* the sports of the rows of a log
LogSports(l) == {l.rows[i]["sport"] : i \in DOMAIN l.rows}

\* the session log before a game exists, or the log of a created game
TabInit ==
    /\ game = None
    /\ roster = <<>>
    /\ logs \in {EmptyFrame, CreatedLog}
    /\ sheets = InitialSheets
    /\ run = [action |-> "Start", outcome |-> "ok", input |-> None,
              result |-> NoSubmit]

\* the rows of one submission are appended to the log of a created game;
\* unless inp.mixed, a log holds the events of one sport, as a game's log does
LogEvent(inp) ==
    /\ InitialLogColumns \subseteq logs.cols
    /\ Len(logs.rows) < inp.max_rows
    /\ \E sport \in inp.sports, r \in inp.rosters :
         /\ inp.mixed \/ LogSports(logs) \subseteq {sport}
         /\ \E w \in FormChoices(sport, r, inp), now \in inp.clock :
              /\ now >= LastTimestamp(logs)
              /\ logs' = AppendRows(logs, BuildForm(sport, r, w, now))
    /\ run' = [action |-> "LogEvent", outcome |-> "ok", input |-> None,
               result |-> NoSubmit]
    /\ UNCHANGED <<game, roster, sheets>>

\* SPORTS[sport].aggregate_totals(logs): the run keeps the sport and the result
Aggregate(inp) ==
    /\ \E sport \in inp.aggregated :
         /\ run' = [action |-> "Aggregate",
                    outcome |-> AggregateTotals(sport, logs).outcome,
                    input |-> Some(sport),
                    result |-> AggregateTotals(sport, logs)]
         /\ logs' = LogsAfterAggregate(sport, logs)
    /\ UNCHANGED <<game, roster, sheets>>

TabNext(inp) ==
    \/ LogEvent(inp)
    \/ Aggregate(inp)

\* a log is tabulated while it has fewer rows than this
MaxTabRows == 3

\* logs of one sport each, of the stat types that bring every column the
\* aggregates read, aggregated by every sport
TotalsInputs ==
    [sports |-> {FootballName, SoccerName, LacrosseName},
     rosters |-> {TabRoster, DupRoster},
     mixed |-> FALSE,
     aggregated |-> {FootballName, SoccerName, LacrosseName, "Baseball", "Basketball"},
     clock |-> {1},
     notes |-> {""},
     yards |-> {5},
     fg_yards |-> {40},
     penalty_halves |-> {2},
     minutes |-> {12},
     stats |-> {"Sack", "Shot", "Foul", "Penalty", "Goalie Minutes"},
     max_rows |-> MaxTabRows]

SpecTotals == TabInit /\ [][TabNext(TotalsInputs)]_vars

\* the roster of sheet S1
PairRoster == ReadRosterDf(InitialSheets["S1"]).df

\* logs of every Football stat type, mixed with Soccer events, aggregated
\* by Football
FootballTotalsInputs ==
    [TotalsInputs EXCEPT !.sports = {FootballName, SoccerName},
                         !.rosters = {PairRoster},
                         !.mixed = TRUE,
                         !.aggregated = {FootballName},
                         !.yards = {5, 7},
                         !.stats = {"Reception", "Run", "Punt", "Fumble", "Pass",
                                    "Field Goal", "Forced Fumble", "Sack", "Tackle",
                                    "Interception", "Return"},
                         !.max_rows = MaxLogRows]

SpecFootballTotals == TabInit /\ [][TabNext(FootballTotalsInputs)]_vars

\* Soccer logs of every stat type and option, aggregated by Soccer
SoccerTotalsInputs ==
    [TotalsInputs EXCEPT !.sports = {SoccerName},
                         !.rosters = {PairRoster},
                         !.aggregated = {SoccerName},
                         !.stats = {"Shot", "Pass", "Tackle", "Interception", "Save",
                                    "Foul"}]

SpecSoccerTotals == TabInit /\ [][TabNext(SoccerTotalsInputs)]_vars

\* a Lacrosse log is tabulated while it has fewer rows than this: three
\* events bring the columns on_target, penalty_minutes and minutes
MaxLacrosseRows == 4

\* Lacrosse logs, aggregated by Lacrosse
LacrosseTotalsInputs ==
    [TotalsInputs EXCEPT !.sports = {LacrosseName},
                         !.rosters = {PairRoster},
                         !.aggregated = {LacrosseName},
                         !.stats = {"Goal", "Shot", "Faceoff", "Penalty",
                                    "Goalie Minutes", "Goal Allowed"},
                         !.max_rows = MaxLacrosseRows]

\* the same with the stat types that are plain counts
LacrosseCountsInputs ==
    [LacrosseTotalsInputs EXCEPT !.rosters = {DupRoster},
                                 !.stats = {"Goal", "Penalty", "Goalie Minutes",
                                            "Assist", "Ground Ball", "Takeaway",
                                            "Interception", "Turnover", "Save"}]

\* logs that mix the events of the three implemented sports, aggregated by each
MixedTotalsInputs ==
    [TotalsInputs EXCEPT !.rosters = {PairRoster},
                         !.mixed = TRUE,
                         !.aggregated = {FootballName, SoccerName, LacrosseName}]

SpecMixedTotals == TabInit /\ [][TabNext(MixedTotalsInputs)]_vars
\* the goalie columns of one player's Lacrosse log, with the minutes the
\* Goalie Minutes input accepts (it has no lower bound)
GoalieInputs ==
    [LacrosseTotalsInputs EXCEPT !.rosters = {DupRoster},
                                 !.minutes = {-12, 0, 12},
                                 !.stats = {"Shot", "Penalty", "Goalie Minutes",
                                            "Goal Allowed"}]

SpecGoalie == TabInit /\ [][TabNext(GoalieInputs)]_vars
\* the Soccer and Lacrosse events that enter a percentage
PercentInputs ==
    [TotalsInputs EXCEPT !.sports = {SoccerName, LacrosseName},
                         !.rosters = {PairRoster},
                         !.aggregated = {SoccerName, LacrosseName},
                         !.stats = {"Goal", "Shot", "Faceoff", "Penalty", "Goalie Minutes",
                                    "Save", "Pass", "Foul"},
                         !.max_rows = MaxLacrosseRows]

SpecPercent == TabInit /\ [][TabNext(PercentInputs)]_vars
SpecLacrosseTotals == TabInit /\ [][TabNext(LacrosseTotalsInputs)]_vars
SpecLacrosseCounts == TabInit /\ [][TabNext(LacrosseCountsInputs)]_vars

(***************************************************************************)
(* The totals of the tabulated logs                                        *)
(***************************************************************************)
\* the last run applied this sport's aggregate_totals to the log
Aggregated(sport) == run.action = "Aggregate" /\ run.input = Some(sport)

\* the totals it returned, when it returned
Returned == run.result.outcome = "ok"
TotalsRows == run.result.rows

Implemented == {FootballName, SoccerName, LacrosseName}

\* the positions of the log's events of a sport, and of one player among them
EventsOfSport(sport) == {i \in DOMAIN logs.rows : logs.rows[i]["sport"] = sport}
EventsOfPlayer(sport, key) ==
    {i \in EventsOfSport(sport) : logs.rows[i]["player_key"] = key}

\* the player keys that appear in the log's events of a sport
KeysOfSport(sport) == {logs.rows[i]["player_key"] : i \in EventsOfSport(sport)}

\* the returned rows are one row for each of these keys
OneRowPerKey(sport) ==
    /\ Len(TotalsRows) = Cardinality(KeysOfSport(sport))
    /\ {TotalsRows[i]["player_key"] : i \in DOMAIN TotalsRows} = KeysOfSport(sport)

\* C12: for every log that holds events, the aggregate of Football, Soccer
\* or Lacrosse returns exactly one totals row for each player_key that
\* appears in the log's events of that sport, and no other row.
C12_OneRowPerPlayerKey ==
    \A sport \in Implemented :
        (Aggregated(sport) /\ logs.rows # <<>>) =>
            /\ Returned
            /\ OneRowPerKey(sport)

\* whenever an aggregate returns, its rows are one row per player_key of the
\* log's events of its sport
OneRowPerKeyWhenReturned ==
    \A sport \in Implemented :
        (Aggregated(sport) /\ Returned) => OneRowPerKey(sport)

(***************************************************************************)
(* Reference totals, computed on the positions of the log                  *)
(***************************************************************************)
\* a numeric attribute of event i; a missing or null attribute counts as 0
Attr(i, col) ==
    IF col \in logs.cols /\ ~IsNull(logs.rows[i][col]) THEN Val(logs.rows[i][col]) ELSE 0

\* the outcome of event i is oc
HasOutcome(i, oc) == "outcome" \in logs.cols /\ logs.rows[i]["outcome"] = Some(oc)

\* the events of a player with one of these stat types
Typed(sport, key, sts) ==
    {i \in EventsOfPlayer(sport, key) : logs.rows[i]["stat_type"] \in sts}

\* the sum of an attribute over a set of events
RECURSIVE RefSum(_, _)
RefSum(S, col) ==
    IF S = {} THEN 0
    ELSE LET i == CHOOSE i \in S : TRUE
         IN  Attr(i, col) + RefSum(S \ {i}, col)

\* the returned row of a player has exactly these stat columns
RowIs(key, reference) ==
    /\ key \in TotalsKeys(run.result)
    /\ StatColumns(TotalsRowOf(run.result, key)) = ("player_key" :> key) @@ reference

FootballReference(key) ==
    LET Of(sts) == Typed(FootballName, key, sts)
        complete == {i \in Of({"Pass"}) : HasOutcome(i, "Complete")}
        Td(S) == Cardinality({i \in S : Attr(i, "touchdown") = 1})
    IN  ("Receptions" :> Cardinality(Of({"Reception"})))
        @@ ("Receiving Yards" :> RefSum(Of({"Reception"}), "yards"))
        @@ ("Receiving TDs" :> Td(Of({"Reception"})))
        @@ ("Rush Attempts" :> Cardinality(Of({"Run"})))
        @@ ("Rushing Yards" :> RefSum(Of({"Run"}), "yards"))
        @@ ("Rushing TDs" :> Td(Of({"Run"})))
        @@ ("Punts" :> Cardinality(Of({"Punt"})))
        @@ ("Punt Yards" :> RefSum(Of({"Punt"}), "yards"))
        @@ ("Fumbles" :> Cardinality(Of({"Fumble"})))
        @@ ("Pass Attempts" :> Cardinality(Of({"Pass"})))
        @@ ("Pass Completions" :> Cardinality(complete))
        @@ ("Pass Yards" :> RefSum(complete, "yards"))
        @@ ("Passing TDs" :> Td(complete))
        @@ ("FG Attempts" :> Cardinality(Of({"Field Goal"})))
        @@ ("FG Made" :>
                Cardinality({i \in Of({"Field Goal"}) : HasOutcome(i, "Made")}))
        @@ ("FG Attempt Yards (Total)" :> RefSum(Of({"Field Goal"}), "yards"))
        @@ ("Forced Fumbles" :> Cardinality(Of({"Forced Fumble"})))
        @@ ("Sacks" :> Cardinality(Of({"Sack"})))
        @@ ("Interceptions" :> Cardinality(Of({"Interception"})))
        @@ ("Tackles" :> Cardinality(Of({"Tackle"})))
        @@ ("Return Yards" :> RefSum(Of({"Return"}), "yards"))
        @@ ("Defensive TDs" :> Td(Of({"Interception", "Return"})))
        @@ ("Touchdowns (Total)" :>
                Td(Of({"Reception"})) + Td(Of({"Run"})) + Td(complete)
                + Td(Of({"Interception", "Return"})))

\* C13: for every log that holds Football events, Football aggregate
\* returns, and the stat columns of every player's row equal the reference
\* formulas computed on the player's Football events.
C13_FootballTotalsMatchReference ==
    (Aggregated(FootballName) /\ KeysOfSport(FootballName) # {}) =>
        /\ Returned
        /\ \A key \in KeysOfSport(FootballName) : RowIs(key, FootballReference(key))

\* totals of a log with a completed and an incomplete pass of one player,
\* of different yards: only the completed pass counts in Pass Yards
C13_Witness ==
    /\ Aggregated(FootballName)
    /\ Returned
    /\ \E key \in KeysOfSport(FootballName) :
          /\ TotalsRowOf(run.result, key)["Pass Attempts"] = 2
          /\ TotalsRowOf(run.result, key)["Pass Completions"] = 1
          /\ TotalsRowOf(run.result, key)["Pass Yards"] = 7
          /\ TotalsRowOf(run.result, key)["Touchdowns (Total)"] = 1

\* the returned row of a player has these values in the columns of the reference
RowHas(key, reference) ==
    /\ key \in TotalsKeys(run.result)
    /\ \A c \in DOMAIN reference :
          /\ c \in DOMAIN TotalsRowOf(run.result, key)
          /\ TotalsRowOf(run.result, key)[c] = reference[c]

\* the card of event i
HasCard(i, card) == "card" \in logs.cols /\ logs.rows[i]["card"] = Some(card)

SoccerReference(key) ==
    LET Of(sts) == Typed(SoccerName, key, sts)
    IN  ("Shots" :> Cardinality(Of({"Shot"})))
        @@ ("Shots on Target" :> RefSum(Of({"Shot"}), "on_target"))
        @@ ("Goals" :> RefSum(Of({"Shot"}), "goal"))
        @@ ("Passes Attempted" :> Cardinality(Of({"Pass"})))
        @@ ("Passes Completed" :>
                Cardinality({i \in Of({"Pass"}) : HasOutcome(i, "Complete")}))
        @@ ("Assists" :> Cardinality(Of({"Assist"})))
        @@ ("Tackles" :> Cardinality(Of({"Tackle"})))
        @@ ("Interceptions" :> Cardinality(Of({"Interception"})))
        @@ ("Saves" :> Cardinality(Of({"Save"})))
        @@ ("Fouls" :> Cardinality(Of({"Foul"})))
        @@ ("Yellow Cards" :> Cardinality({i \in Of({"Foul"}) : HasCard(i, "Yellow")}))
        @@ ("Red Cards" :> Cardinality({i \in Of({"Foul"}) : HasCard(i, "Red")}))

\* every player of the log's Soccer events has a row with the reference values
SoccerRowsMatch ==
    \A key \in KeysOfSport(SoccerName) : RowHas(key, SoccerReference(key))

\* C14: for every log that holds Soccer events, Soccer aggregate returns,
\* and the columns of every player's row equal the reference formulas
\* computed on that player's Soccer events alone.
C14_SoccerTotalsMatchReference ==
    (Aggregated(SoccerName) /\ KeysOfSport(SoccerName) # {}) =>
        /\ Returned
        /\ SoccerRowsMatch

\* whenever Soccer aggregate returns, every player's row equals the reference
SoccerTotalsMatchWhenReturned ==
    (Aggregated(SoccerName) /\ Returned) => SoccerRowsMatch

\* Soccer totals were returned for a log of two players with a goal pass
SoccerTotalsReturned ==
    /\ Aggregated(SoccerName)
    /\ Returned
    /\ Cardinality(KeysOfSport(SoccerName)) = 2
    /\ \E key \in KeysOfSport(SoccerName) :
          /\ TotalsRowOf(run.result, key)["Assists"] = 1
          /\ TotalsRowOf(run.result, key)["Fouls"] = 1

LacrosseReference(key) ==
    LET Of(sts) == Typed(LacrosseName, key, sts)
        N(st) == Cardinality(Of({st}))
    IN  ("Goals" :> N("Goal"))
        @@ ("Shots" :> N("Shot"))
        @@ ("Shots on Goal" :> RefSum(Of({"Shot"}), "on_target"))
        @@ ("Assists" :> N("Assist"))
        @@ ("Points" :> N("Goal") + N("Assist"))
        @@ ("Ground Balls" :> N("Ground Ball"))
        @@ ("Faceoffs Attempted" :> N("Faceoff"))
        @@ ("Faceoffs Won" :>
                Cardinality({i \in Of({"Faceoff"}) : HasOutcome(i, "Win")}))
        @@ ("Takeaways" :> N("Takeaway"))
        @@ ("Interceptions" :> N("Interception"))
        @@ ("Caused Turnovers" :> N("Takeaway") + N("Interception"))
        @@ ("Turnovers" :> N("Turnover"))
        @@ ("Penalties" :> N("Penalty"))
        @@ ("Penalty Minutes" :> RefSum(Of({"Penalty"}), "penalty_minutes"))
        @@ ("Saves" :> N("Save"))
        @@ ("Goals Allowed" :> N("Goal Allowed"))
        @@ ("Minutes" :> RefSum(Of({"Goalie Minutes"}), "minutes"))
        @@ ("Shots on Goal Faced" :> N("Save") + N("Goal Allowed"))

\* every player of the log's Lacrosse events has a row with the reference values
LacrosseRowsMatch ==
    \A key \in KeysOfSport(LacrosseName) : RowHas(key, LacrosseReference(key))

\* C15: for every log that holds Lacrosse events, Lacrosse aggregate
\* returns, and the columns of every player's row equal the reference
\* formulas computed on that player's Lacrosse events.
C15_LacrosseTotalsMatchReference ==
    (Aggregated(LacrosseName) /\ KeysOfSport(LacrosseName) # {}) =>
        /\ Returned
        /\ LacrosseRowsMatch

\* whenever Lacrosse aggregate returns, every player's row equals the reference
LacrosseTotalsMatchWhenReturned ==
    (Aggregated(LacrosseName) /\ Returned) => LacrosseRowsMatch

\* Lacrosse totals were returned for a log with a goal, a penalty and goalie minutes
LacrosseTotalsReturned ==
    /\ Aggregated(LacrosseName)
    /\ Returned
    /\ \E key \in KeysOfSport(LacrosseName) :
          /\ TotalsRowOf(run.result, key)["Goals"] = 1
          /\ TotalsRowOf(run.result, key)["Penalty Minutes"] = 2
          /\ TotalsRowOf(run.result, key)["Minutes"] = 12

(***************************************************************************)
(* The sports without an implementation                                    *)
(***************************************************************************)
Stubs == {"Baseball", "Basketball"}

\* C16: Baseball and Basketball aggregate returns an empty totals result,
\* without raising, for every event log: the column-less log of a new
\* session, the empty log of a created game, and non-empty logs, all of
\* whose events are events of other sports.
C16_StubAggregateReturnsEmpty ==
    \A sport \in Stubs :
        Aggregated(sport) => (Returned /\ TotalsRows = <<>>)

\* Baseball aggregate was applied to a full log of another sport's events
C16_Witness ==
    /\ Aggregated("Baseball")
    /\ Len(logs.rows) = MaxTabRows
    /\ EventsOfSport(SoccerName) = DOMAIN logs.rows
    /\ Returned
    /\ TotalsRows = <<>>

\* Basketball aggregate was applied to the column-less log of a new session
StubAggregatedOnNewSession ==
    /\ Aggregated("Basketball")
    /\ logs = EmptyFrame
    /\ Returned

(***************************************************************************)
(* Empty logs and logs of other sports                                     *)
(***************************************************************************)
\* every row of the returned totals equals the reference of its sport,
\* computed on the player's events of that sport alone
OwnRowsMatch(sport) ==
    CASE sport = FootballName ->
           \A key \in KeysOfSport(FootballName) : RowIs(key, FootballReference(key))
      [] sport = SoccerName -> SoccerRowsMatch
      [] sport = LacrosseName -> LacrosseRowsMatch

\* an aggregate that finds no event of its sport returns empty totals
EmptyWhenNoOwnEvent(sport) ==
    EventsOfSport(sport) = {} => (Returned /\ TotalsRows = <<>>)

\* the totals an aggregate returns are made of the events of its sport alone
OnlyOwnEventsCount(sport) ==
    Returned => (OneRowPerKey(sport) /\ OwnRowsMatch(sport))

\* C17: Football, Soccer and Lacrosse aggregate return empty totals, and
\* raise nothing, for a log without events and for a log without an event
\* of their own sport; and whatever they return holds rows only for players
\* with events of their sport, with columns computed on those events alone.
C17_ToleratesEmptyAndForeignLogs ==
    \A sport \in Implemented :
        Aggregated(sport) =>
            /\ EmptyWhenNoOwnEvent(sport)
            /\ OnlyOwnEventsCount(sport)

\* the same for the logs that have the columns of a created game
ToleratesCreatedLogs ==
    \A sport \in Implemented :
        (Aggregated(sport) /\ InitialLogColumns \subseteq logs.cols) =>
            /\ EmptyWhenNoOwnEvent(sport)
            /\ OnlyOwnEventsCount(sport)

\* Football aggregate returned empty totals for a log of Soccer and Lacrosse events
ForeignLogAggregated ==
    /\ Aggregated(FootballName)
    /\ EventsOfSport(SoccerName) # {}
    /\ EventsOfSport(LacrosseName) # {}
    /\ Returned
    /\ TotalsRows = <<>>

\* Soccer aggregate returned totals for a log that also holds a Football
\* event of the same player
MixedLogAggregated ==
    /\ Aggregated(SoccerName)
    /\ Returned
    /\ \E key \in KeysOfSport(SoccerName) : key \in KeysOfSport(FootballName)

\* an aggregate was applied to the empty log of a created game
CreatedLogAggregated ==
    /\ Aggregated(LacrosseName)
    /\ logs = CreatedLog
    /\ Returned

(***************************************************************************)
(* The order of the totals rows                                            *)
(***************************************************************************)
\* row x may stand before row y: its last_name is smaller, or the
\* last_names are equal and its first_name is not greater
InNameOrder(x, y) ==
    \/ StrLess(x["last_name"], y["last_name"])
    \/ /\ x["last_name"] = y["last_name"]
       /\ ~StrLess(y["first_name"], x["first_name"])

\* C18: the totals rows that Football, Soccer or Lacrosse aggregate returns
\* are in ascending order of (last_name, first_name), last_name first and
\* first_name breaking ties, in whatever order the events entered the log.
C18_TotalsSortedByName ==
    \A sport \in Implemented :
        (Aggregated(sport) /\ Returned) =>
            \A i, j \in DOMAIN TotalsRows :
                i < j => InNameOrder(TotalsRows[i], TotalsRows[j])

\* Soccer totals of three players whose events entered the log in the
\* reverse of the name order, two of them sharing a last_name
C18_Witness ==
    /\ Aggregated(SoccerName)
    /\ Returned
    /\ Len(logs.rows) = 3
    /\ <<logs.rows[1]["last_name"], logs.rows[1]["first_name"]>> = <<"Zo", "Al">>
    /\ <<logs.rows[2]["last_name"], logs.rows[2]["first_name"]>> = <<"Di", "Cy">>
    /\ <<logs.rows[3]["last_name"], logs.rows[3]["first_name"]>> = <<"Di", "Bea">>
    /\ [i \in DOMAIN TotalsRows |-> TotalsRows[i]["first_name"]] = <<"Bea", "Cy", "Al">>

\* Lacrosse totals of two players returned in name order
LacrosseTotalsSorted ==
    /\ Aggregated(LacrosseName)
    /\ Returned
    /\ [i \in DOMAIN TotalsRows |-> TotalsRows[i]["last_name"]] = <<"Di", "Zo">>

(***************************************************************************)
(* Saving a game                                                           *)
(***************************************************************************)
Saved == run.action = "Save" /\ run.outcome = "ok"
SaveFailed == run.action = "Save" /\ run.outcome = "error"

\* the tabs of the game's spreadsheet that carry a title
TabsTitled(sh, title) == {i \in DOMAIN sh : sh[i].title = title}
GameSheet == sheets[Val(game).sheet_id]
TotalsTabs == TabsTitled(GameSheet, TotalsTitle(Val(game)))
LogTabs == TabsTitled(GameSheet, LogTitle(Val(game)))

\* C19: after a successful save, in whatever state the spreadsheet was
\* (earlier successful or failed saves under the same label included), the
\* spreadsheet holds exactly one Log tab under the game's label, whose
\* content is the session's log, and at most one Totals tab, whose content
\* is the totals of that log; and no spreadsheet ever holds two tabs of
\* one title.
C19_SaveOverwrites ==
    /\ \A id \in DOMAIN sheets :
          \A i, j \in DOMAIN sheets[id] :
              sheets[id][i].title = sheets[id][j].title => i = j
    /\ Saved =>
          /\ Cardinality(LogTabs) = 1
          /\ \A i \in LogTabs :
                /\ GameSheet[i].header = logs.cols
                /\ GameSheet[i].rows = logs.rows
          /\ Cardinality(TotalsTabs) <= 1
          /\ \A i \in TotalsTabs : GameSheet[i].rows = SessionTotals.rows

\* a successful save that found and deleted both tabs of an earlier save
\* under the same label, and wrote a log of two events
C19_Witness ==
    /\ Saved
    /\ run.input = Some({TotalsTitle(Val(game)), LogTitle(Val(game))})
    /\ Cardinality(LogTabs) = 1
    /\ Cardinality(TotalsTabs) = 1
    /\ Len(logs.rows) = 2
    /\ \A i \in LogTabs : Len(GameSheet[i].rows) = 2

\* the tabs stored under the game's label, in the order of the spreadsheet
LabelTabs(sh, g) ==
    SelectSeq(sh, LAMBDA ws : ws.title \in {TotalsTitle(g), LogTitle(g)})

\* C20: a save that fails, at whatever step, leaves under the game's label
\* the tabs that were there before the save started.
C20_SaveIsAllOrNothing ==
    [][(run'.action = "Save" /\ run'.outcome = "error") =>
          LabelTabs(sheets'[Val(game).sheet_id], Val(game))
              = LabelTabs(sheets[Val(game).sheet_id], Val(game))]_vars

\* a failed save that deleted no tab of a label that had tabs failed to
\* open the spreadsheet, and leaves every tab as it was
FailedOpenKeepsTabs ==
    [][(run'.action = "Save" /\ run'.outcome = "error" /\ run'.input = Some({})) =>
          \/ sheets' = sheets
          \/ LabelTabs(sheets[Val(game).sheet_id], Val(game)) = <<>>]_vars

\* a failed save deleted both tabs of the label and wrote none
LabelLeftEmpty ==
    /\ SaveFailed
    /\ run.input = Some({TotalsTitle(Val(game)), LogTitle(Val(game))})
    /\ TotalsTabs = {}
    /\ LogTabs = {}

\* a failed save left a new Totals tab and no Log tab
TotalsLeftWithoutLog ==
    /\ SaveFailed
    /\ Cardinality(TotalsTabs) = 1
    /\ LogTabs = {}

(***************************************************************************)
(* CSV roster import                                                       *)
(***************************************************************************)
Imported == run.action = "ImportRoster"
Uploaded == Val(run.input)

\* the tabs titled "Roster", in every spreadsheet
RosterTabs(id) == TabsTitled(sheets[id], "Roster")

\* C21: an uploaded table whose header names are not exactly the four
\* expected ones (one is missing, or there is one more) is rejected with
\* the column-mismatch error, and no Roster tab ever has another header
\* than the four expected names.
C21_ImportAcceptsExactHeaderOnly ==
    /\ Imported => (Uploaded.cols # RosterHeader => run.outcome = "rejected")
    /\ \A id \in DOMAIN sheets :
          \A i \in RosterTabs(id) : sheets[id][i].header = RosterHeader

\* a table is rejected with the column-mismatch error exactly when one of
\* the four expected names is missing, and then nothing is written
ImportRejectsMissingColumn ==
    /\ Imported => (run.outcome = "rejected" <=> ~(RosterHeader \subseteq Uploaded.cols))
    /\ \A id \in DOMAIN sheets :
          \A i \in RosterTabs(id) : RosterHeader \subseteq sheets[id][i].header

\* a table with one more column was written as the Roster tab and read back
ExtraColumnWritten ==
    /\ Imported
    /\ run.outcome = "ok"
    /\ Uploaded = CsvExtra
    /\ \E i \in RosterTabs(Val(game).sheet_id) : ColExtra \in GameSheet[i].header
    /\ Len(roster) = 1

\* a table without its positions column was rejected
MissingColumnRejected ==
    /\ Imported
    /\ run.outcome = "rejected"
    /\ Uploaded = CsvMissing

(***************************************************************************)
(* The MaxPreps export (pages/6_Export_to_MaxPreps.py)                     *)
(***************************************************************************)
SupplierId == "669ae75f-4563-494a-8c17-370aaa8539d4"

\* MAXPREPS_FIELDS: the canonical Football fields
MAXPREPS_FIELDS ==
    <<"Jersey", "RushingNum", "RushingYards", "RushingLong", "ReceivingNum",
      "ReceivingYards", "ReceivingLong", "PassingComp", "PassingAtt",
      "PassingInt", "PassingYards", "PassingTD", "PassingLong",
      "OffensiveFumbles", "OffensiveFumblesLost", "PancakeBlocks", "Tackles",
      "Assists", "TotalTackles", "TacklesForLoss", "Sacks", "SacksYardsLost",
      "QBHurries", "INTs", "INTYards", "PassesDefensed", "BlockedPunts",
      "BlockedFG", "FumbleRecoveries", "FumbleRecoveryYards", "CausedFumbles",
      "PuntReturnNum", "PuntReturnYards", "PuntReturnLong",
      "PuntReturnFairCatches", "KickoffReturnNum", "KickoffReturnYards",
      "KickoffReturnLong", "TotalReturnYards", "PuntNum", "PuntYards",
      "PuntLong", "PuntInside20", "KickoffNum", "KickoffYards", "KickoffLong",
      "KickoffTouchbacks", "Touchdowns", "RushingTDNum", "ReceivingTDNum",
      "FumbleReturnedTDNum", "IntReturnedTDNum", "PuntReturnedTDNum",
      "KickoffReturnedTDNum", "TotalTDNum", "PATKickingMade", "PATKickingAtt",
      "PATKickingPoints", "PATRushingNum", "PATReceivingNum",
      "TotalConversionPoints", "FGMade", "FGAttempted", "FGLong", "Safeties",
      "TotalPoints">>

\* SPORT_FIELDS: the declared fields of each sport, without "Jersey"
SPORT_FIELDS ==
    ("Football" :>
        <<"RushingNum", "RushingYards", "RushingLong", "ReceivingNum",
          "ReceivingYards", "ReceivingLong", "PassingComp", "PassingAtt",
          "PassingInt", "PassingYards", "PassingTD", "PassingLong",
          "OffensiveFumbles", "OffensiveFumblesLost", "PancakeBlocks",
          "Tackles", "Assists", "TotalTackles", "TacklesForLoss", "Sacks",
          "SacksYardsLost", "QBHurries", "INTs", "INTYards", "PassesDefensed",
          "BlockedPunts", "BlockedFG", "FumbleRecoveries",
          "FumbleRecoveryYards", "CausedFumbles", "PuntReturnNum",
          "PuntReturnYards", "PuntReturnLong", "PuntReturnFairCatches",
          "KickoffReturnNum", "KickoffReturnYards", "KickoffReturnLong",
          "TotalReturnYards", "PuntNum", "PuntYards", "PuntLong",
          "PuntInside20", "KickoffNum", "KickoffYards", "KickoffLong",
          "KickoffTouchbacks", "Touchdowns", "RushingTDNum", "ReceivingTDNum",
          "FumbleReturnedTDNum", "IntReturnedTDNum", "PuntReturnedTDNum",
          "KickoffReturnedTDNum", "TotalTDNum", "PATKickingMade",
          "PATKickingAtt", "PATKickingPoints", "PATRushingNum",
          "PATReceivingNum", "TotalConversionPoints", "FGMade", "FGAttempted",
          "FGLong", "Safeties", "TotalPoints">>)
    @@ ("Baseball" :>
        <<"AtBats", "Runs", "Singles", "Doubles", "Triples", "HomeRuns",
          "Hits", "RunsBattedIn", "SacrificeFly", "SacrificeBunt",
          "BaseOnBalls", "StruckOut", "HitByPitch", "ReachedOnError",
          "FieldersChoice", "LeftOnBase", "GrandSlams", "StolenBase",
          "StolenBaseAttempts", "PutOuts", "Assists", "Errors", "DoublePlays",
          "TriplePlays", "StolenBaseAttemptsCatcher", "CaughtStealing",
          "PassedBalls", "Start", "Win", "Loss", "Save", "Appearances",
          "CompleteGame", "ShutOut", "NoHitter", "PerfectGame",
          "InningsPitched", "PartialInningPitched", "BattersFaced",
          "RunsAgainst", "EarnedRuns", "HitsAgainst", "DoublesAgainst",
          "TriplesAgainst", "HomeRunsAgainst", "SacrificeFlyPitcher",
          "SacrificeBuntPitcher", "BaseOnBallsAgainst", "BattersStruckOut",
          "HitBatter", "Balks", "WildPitches", "NumberOfPitches", "PickOffs",
          "StolenBasesPitcher">>)
    @@ ("Basketball" :> <<>>)
    @@ ("Soccer" :>
        <<"FieldMinutesPlayed", "Goals", "Assists", "Shots", "ShotsOnGoal",
          "Steals", "PenaltyKicksMade", "PenaltyKicksAttempted",
          "CornerKicks", "GameWinningGoal", "YellowCards", "RedCards",
          "MinutesPlayed", "OvertimeMinutesPlayed", "GoalsAgainst", "Saves",
          "OpponentShotsOnGoal", "OpponentPenaltyKickSaves",
          "OpponentPenaltyKickAttempts", "ShutOuts", "Win", "Loss", "Tie">>)
    @@ ("Lacrosse" :> <<>>)

\* str.lower() of the header names the export is given
LowerTable ==
    ("Jersey" :> "jersey") @@ ("JERSEY" :> "jersey") @@ ("jersey" :> "jersey")
    @@ ("number" :> "number") @@ ("Rush Att" :> "rush att")
    @@ ("rush att" :> "rush att") @@ ("Rush Yds" :> "rush yds")
    @@ ("Grade" :> "grade")
Lower(s) == LowerTable[s]

\* str(v) of a cell that is not NaN
CellStr(c) ==
    CASE Val(c).kind = "text" -> Val(c).txt
      [] Val(c).kind = "int" -> ToString(Val(c).val)
      [] Val(c).kind = "frac" -> ToString(Val(c).floor) \o ".5"

\* coerce_str_no_nan: "" for NaN, the stripped text, the integer without
\* its fraction, else str(x)
CoerceStrNoNan(c) ==
    IF IsNull(c) THEN ""
    ELSE IF Val(c).kind = "text" THEN Strip(Val(c).txt)
    ELSE CellStr(c)

\* resolve_column_name_case_insensitive: the first column whose stripped
\* lowercase equals that of the name, else the name itself
ResolveColumnNameCaseInsensitive(df, name) ==
    LET hits == {i \in DOMAIN df.columns :
                    Lower(Strip(df.columns[i])) = Lower(Strip(name))}
    IN  IF hits = {} THEN name
        ELSE df.columns[CHOOSE i \in hits : \A j \in hits : i <= j]

\* df[sheet_col].apply(lambda v: not pd.isna(v) and str(v).strip() != "").any()
HasAny(df, col) ==
    \E i \in DOMAIN df.rows :
        /\ ~IsNull(df.rows[i][col])
        /\ Strip(CellStr(df.rows[i][col])) # ""

\* the fields of the map entries whose sheet column is in the table and has
\* a value, in the order of the map
MappedWithData(df, field_map) ==
    LET kept == SelectSeq(field_map, LAMBDA e :
                    /\ e.field # "Jersey"
                    /\ e.col \in Range(df.columns)
                    /\ HasAny(df, e.col))
    IN  [i \in DOMAIN kept |-> kept[i].field]

\* included_sorted + extras
SortedThenExtras(included, order) ==
    LET included_sorted == SelectSeq(order, LAMBDA f : f \in Range(included))
        extras == SelectSeq(included, LAMBDA f : f \notin Range(included_sorted))
    IN  included_sorted \o extras

\* choose_fields_to_include
ChooseFieldsToInclude(df, field_map) ==
    SortedThenExtras(MappedWithData(df, field_map),
                     SelectSeq(MAXPREPS_FIELDS, LAMBDA f : f # "Jersey"))

\* choose_fields_to_include_for_sport: a field is included when
\* (not declared or mp_field in declared)
ChooseFieldsToIncludeForSport(df, field_map, declared) ==
    SortedThenExtras(
        SelectSeq(MappedWithData(df, field_map),
                  LAMBDA f : declared = <<>> \/ f \in Range(declared)),
        IF declared # <<>> THEN declared
        ELSE SelectSeq(MAXPREPS_FIELDS, LAMBDA f : f # "Jersey"))

\* reverse_map: the column of each field, the last map entry winning; an
\* entry counts when its column, or its case-insensitive match, is in the table
ReverseMap(df, field_map) ==
    LET found(e) == IF e.col \in Range(df.columns) THEN e.col
                    ELSE ResolveColumnNameCaseInsensitive(df, e.col)
        usable == SelectSeq(field_map, LAMBDA e : found(e) \in Range(df.columns))
    IN  [f \in {usable[i].field : i \in DOMAIN usable} |->
            found(usable[CHOOSE i \in DOMAIN usable :
                            /\ usable[i].field = f
                            /\ \A j \in DOMAIN usable : usable[j].field = f => j <= i])]

\* "|".join(values)
RECURSIVE JoinPipe(_)
JoinPipe(values) ==
    IF values = <<>> THEN ""
    ELSE IF Len(values) = 1 THEN values[1]
    ELSE values[1] \o "|" \o JoinPipe(Tail(values))

\* the values of one row: the jersey value and one value per included field
RowValues(row, jersey_column, included, reverse_map) ==
    <<CoerceStrNoNan(row[jersey_column])>>
    \o [k \in DOMAIN included |->
          IF included[k] \in DOMAIN reverse_map
          THEN CoerceStrNoNan(row[reverse_map[included[k]]])
          ELSE ""]

\* RowLines that writes a line for every row with a jersey value
RECURSIVE RowLinesOfEveryJersey(_, _, _, _)
RowLinesOfEveryJersey(rows, jersey_column, included, reverse_map) ==
    IF rows = <<>> THEN <<>>
    ELSE LET values == RowValues(Head(rows), jersey_column, included, reverse_map)
             rest == RowLinesOfEveryJersey(Tail(rows), jersey_column, included, reverse_map)
         IN  IF values[1] = "" THEN rest
             ELSE <<JoinPipe(values)>> \o rest

\* for _, row in df.iterrows(): a row without jersey value is skipped, and
\* a row is written if any(v != "" for v in values[1:])
RECURSIVE RowLines(_, _, _, _)
RowLines(rows, jersey_column, included, reverse_map) ==
    IF rows = <<>> THEN <<>>
    ELSE LET values == RowValues(Head(rows), jersey_column, included, reverse_map)
             rest == RowLines(Tail(rows), jersey_column, included, reverse_map)
         IN  IF values[1] = "" THEN rest
             ELSE IF \E k \in 2..Len(values) : values[k] # ""
             THEN <<JoinPipe(values)>> \o rest
             ELSE rest

\* the text of an export, as its lines
ExportText(df, jersey_column, included, reverse_map) ==
    [outcome |-> "ok",
     lines |-> <<SupplierId, JoinPipe(<<"Jersey">> \o included)>>
               \o RowLines(df.rows, jersey_column, included, reverse_map)]

ExportFails(e) == [outcome |-> e, lines |-> <<>>]

\* build_maxpreps_txt(df, field_map, jersey_column_name)
BuildMaxprepsTxt(df, field_map, jersey_column_name) ==
    LET jersey_column_resolved == ResolveColumnNameCaseInsensitive(df, jersey_column_name)
    IN  IF jersey_column_resolved \notin Range(df.columns) THEN ExportFails("ValueError")
        ELSE ExportText(df, jersey_column_resolved,
                        ChooseFieldsToInclude(df, field_map),
                        ReverseMap(df, field_map))

\* "Build .txt" of the page: _build with the declared fields of the sport
PageBuild(df, fmap, jersey, declared) ==
    LET jersey_col_res == ResolveColumnNameCaseInsensitive(df, jersey)
    IN  IF df.rows = <<>> THEN ExportFails("no data")
        ELSE IF jersey_col_res \notin Range(df.columns) THEN ExportFails("ValueError")
        ELSE ExportText(df, jersey_col_res,
                        ChooseFieldsToIncludeForSport(df, fmap, declared),
                        ReverseMap(df, fmap))

\* the tables, maps and names the export is applied to
MapEntry(col, field) == [col |-> col, field |-> field]

MapBasic ==
    <<MapEntry("Jersey", "Jersey"), MapEntry("Rush Yds", "RushingYards"),
      MapEntry("Rush Att", "RushingNum")>>
MapExtras ==
    <<MapEntry("Grade", "ClassYear"), MapEntry("Rush Yds", "RushingYards"),
      MapEntry("number", "Jersey"), MapEntry("Rush Att", "RushingNum")>>
MapTwice ==
    <<MapEntry("Rush Att", "RushingNum"), MapEntry("Rush Yds", "RushingNum")>>
MapLower ==
    <<MapEntry("jersey", "Jersey"), MapEntry("rush att", "RushingNum"),
      MapEntry("Rush Yds", "RushingYards")>>

ExportRow(jersey_column, j, att, yds, grade) ==
    (jersey_column :> j) @@ ("Rush Att" :> att) @@ ("Rush Yds" :> yds)
    @@ ("Grade" :> grade)

TextCell(s) == Some(RawText(s))
IntCell(n) == Some(RawInt(n))

\* rows of a totals table: with values, with a jersey only, without
\* jersey, with blank values, with one value, with a value in Grade only
ExportRows(jc) ==
    {ExportRow(jc, TextCell("12"), IntCell(5), IntCell(42), TextCell("11")),
     ExportRow(jc, IntCell(10), None, None, None),
     ExportRow(jc, TextCell(""), IntCell(3), IntCell(12), None),
     ExportRow(jc, TextCell(" 7 "), None, TextCell(" "), TextCell("")),
     ExportRow(jc, None, IntCell(1), IntCell(1), TextCell("x")),
     ExportRow(jc, IntCell(3), None, Some(RawFrac(8)), None),
     ExportRow(jc, TextCell("9"), None, None, TextCell("12"))}

\* a table has at most this many rows
MaxExportRows == 2

RECURSIVE SeqsUpTo(_, _)
SeqsUpTo(S, n) ==
    IF n = 0 THEN {<<>>}
    ELSE SeqsUpTo(S, n - 1)
         \cup {Append(s, x) : s \in {t \in SeqsUpTo(S, n - 1) : Len(t) = n - 1}, x \in S}

ExportFrames ==
    UNION {{[columns |-> <<jc, "Rush Att", "Rush Yds", "Grade">>, rows |-> rs] :
               rs \in SeqsUpTo(ExportRows(jc), MaxExportRows)} :
           jc \in {"Jersey", "JERSEY"}}

ExportMaps == {MapBasic, MapExtras, MapTwice, MapLower}

\* the inputs of one export; the session is not touched by it
ExportInit ==
    /\ game = None
    /\ roster = <<>>
    /\ logs = EmptyFrame
    /\ sheets = InitialSheets
    /\ \E df \in ExportFrames, fmap \in ExportMaps, jersey \in {"Jersey", "number"},
          sport \in {"Football", "Soccer", "Lacrosse"} :
          run = [action |-> "Start", outcome |-> "ok",
                 input |-> Some([df |-> df, field_map |-> fmap, jersey |-> jersey,
                                 sport |-> sport]),
                 result |-> NoSubmit]

\* build_maxpreps_txt(df, field_map, jersey_column_name)
LibraryExport ==
    /\ run.action = "Start"
    /\ LET in == Val(run.input)
           res == BuildMaxprepsTxt(in.df, in.field_map, in.jersey)
       IN  run' = [action |-> "build_maxpreps_txt",
                   outcome |-> res.outcome,
                   input |-> Some([df |-> in.df, field_map |-> in.field_map,
                                   jersey |-> in.jersey, declared |-> <<>>]),
                   result |-> res]
    /\ UNCHANGED <<game, roster, logs, sheets>>

\* "Build .txt": the jersey column is the one guess_jersey_column proposes,
\* the declared fields are those of the selected sport
PageExport ==
    /\ run.action = "Start"
    /\ LET in == Val(run.input)
           res == PageBuild(in.df, in.field_map, in.df.columns[1],
                            SPORT_FIELDS[in.sport])
       IN  run' = [action |-> "Build .txt",
                   outcome |-> res.outcome,
                   input |-> Some([df |-> in.df, field_map |-> in.field_map,
                                   jersey |-> in.df.columns[1],
                                   declared |-> SPORT_FIELDS[in.sport]]),
                   result |-> res]
    /\ UNCHANGED <<game, roster, logs, sheets>>

ExportNext == LibraryExport \/ PageExport

SpecExport == ExportInit /\ [][ExportNext]_vars

(***************************************************************************)
(* The lines of an export                                                  *)
(***************************************************************************)
ByLibrary == run.action = "build_maxpreps_txt"
ByPage == run.action = "Build .txt"
Exported == (ByLibrary \/ ByPage) /\ run.outcome = "ok"

ExportOf == Val(run.input)
ExportLines == run.result.lines

\* a line cut at its pipes
RECURSIVE SplitFrom(_, _, _)
SplitFrom(s, start, i) ==
    IF i > Len(s) THEN <<SubSeq(s, start, Len(s))>>
    ELSE IF SubSeq(s, i, i) = "|"
    THEN <<SubSeq(s, start, i - 1)>> \o SplitFrom(s, i + 1, i + 1)
    ELSE SplitFrom(s, start, i + 1)
SplitPipe(s) == SplitFrom(s, 1, 1)

\* the fields of the header line, after Jersey
HeaderFields == Tail(SplitPipe(ExportLines[2]))

\* the value of a row in the jersey column, and in the column a field is
\* mapped to ("" where the field has no mapped column)
JerseyValue(i) ==
    CoerceStrNoNan(ExportOf.df.rows[i][
        ResolveColumnNameCaseInsensitive(ExportOf.df, ExportOf.jersey)])
FieldValue(i, f) ==
    LET reverse_map == ReverseMap(ExportOf.df, ExportOf.field_map)
    IN  IF f \in DOMAIN reverse_map
        THEN CoerceStrNoNan(ExportOf.df.rows[i][reverse_map[f]])
        ELSE ""

\* the rows the omission rule keeps
KeptRows ==
    {i \in DOMAIN ExportOf.df.rows :
        /\ JerseyValue(i) # ""
        /\ \E k \in DOMAIN HeaderFields : FieldValue(i, HeaderFields[k]) # ""}

\* the n-th kept row, in the order of the table
NthKept(n) == CHOOSE i \in KeptRows : Cardinality({j \in KeptRows : j <= i}) = n

\* C22: the export text has a player line for a row of the table if and
\* only if the row's jersey value is not empty and one of its included
\* fields is not empty; the lines follow the order of the rows, and each is
\* the jersey value followed by one value for each field of the header.
C22_ExportOmitsEmptyRows ==
    Exported =>
        /\ Len(ExportLines) = 2 + Cardinality(KeptRows)
        /\ \A n \in 1..Cardinality(KeptRows) :
              SplitPipe(ExportLines[2 + n])
                  = <<JerseyValue(NthKept(n))>>
                    \o [k \in DOMAIN HeaderFields |->
                          FieldValue(NthKept(n), HeaderFields[k])]

\* the page exported a table of two rows: the first has a jersey and
\* blank values and has no line, the second has its line
C22_Witness ==
    /\ ByPage
    /\ Exported
    /\ Len(ExportOf.df.rows) = 2
    /\ JerseyValue(1) = "7"
    /\ KeptRows = {2}
    /\ ExportLines = <<SupplierId, "Jersey|RushingNum|RushingYards", "12|5|42">>

\* the library exported a table whose second row has no jersey value
JerseylessRowOmitted ==
    /\ ByLibrary
    /\ Exported
    /\ Len(ExportOf.df.rows) = 2
    /\ JerseyValue(2) = ""
    /\ KeptRows = {1}
    /\ Len(ExportLines) = 3

(***************************************************************************)
(* The header of an export                                                 *)
(***************************************************************************)
\* the fields whose mapped column is in the table and has a value, in the
\* order of the map
FieldsWithData == MappedWithData(ExportOf.df, ExportOf.field_map)

\* the declared field list of the export: that of the selected sport on the
\* page; the canonical list in the library, and on the page for a sport
\* that declares no field
DeclaredFields ==
    IF ByPage /\ ExportOf.declared # <<>> THEN ExportOf.declared
    ELSE SelectSeq(MAXPREPS_FIELDS, LAMBDA f : f # "Jersey")

\* the declared fields that have data, in declared order, then the other
\* fields that have data, in the order of the map
DeclaredThenAppended ==
    SelectSeq(DeclaredFields, LAMBDA f : f \in Range(FieldsWithData))
    \o SelectSeq(FieldsWithData, LAMBDA f : f \notin Range(DeclaredFields))

\* C23: line 1 of an export is the supplier identifier, and line 2 is
\* Jersey followed by the fields that have data: those of the declared
\* list first, in declared order, then those absent from the declared
\* list, in the order of the map; in the library and on the page.
C23_ExportHeader ==
    Exported =>
        /\ ExportLines[1] = SupplierId
        /\ SplitPipe(ExportLines[2]) = <<"Jersey">> \o DeclaredThenAppended

\* the same for the library alone
LibraryHeader ==
    (ByLibrary /\ Exported) =>
        /\ ExportLines[1] = SupplierId
        /\ SplitPipe(ExportLines[2]) = <<"Jersey">> \o DeclaredThenAppended

\* the header of the page holds the declared fields that have data, in
\* declared order, and no field absent from a declared list that is not empty
PageHeader ==
    (ByPage /\ Exported) =>
        /\ ExportLines[1] = SupplierId
        /\ SplitPipe(ExportLines[2])
              = <<"Jersey">>
                \o SelectSeq(DeclaredThenAppended,
                             LAMBDA f : ExportOf.declared = <<>>
                                        \/ f \in Range(ExportOf.declared))

\* the library appended a field that is absent from the canonical list
LibraryAppendsUndeclared ==
    /\ ByLibrary
    /\ Exported
    /\ ExportLines[2] = "Jersey|RushingNum|RushingYards|ClassYear"

\* the page, for Football, left out a mapped field with data that is
\* absent from the declared list
PageDropsUndeclared ==
    /\ ByPage
    /\ Exported
    /\ ExportOf.declared = SPORT_FIELDS["Football"]
    /\ "ClassYear" \in Range(FieldsWithData)
    /\ ExportLines[2] = "Jersey|RushingNum|RushingYards"

(***************************************************************************)
(* The players of the logged events                                        *)
(***************************************************************************)
\* the options a form shows in place of a player
Placeholders == {"None", "No eligible receivers"}

\* an event carries the player_key and the identity fields of a roster row
OfRosterRow(row, r) ==
    \E k \in DOMAIN r : \A c \in RosterColumns : row[c] = r[k][c]

\* C24: every event a submission returns, primary or paired, carries the
\* player_key and the identity fields of a row of the roster the form was
\* built from, the returned events are the ones committed to the log, and
\* no event of the log carries a placeholder option as its player_key.
C24_EventsResolveInRoster ==
    /\ run.action = "Submit" =>
          /\ \A i \in DOMAIN Rows : OfRosterRow(Rows[i], roster)
          /\ Committed
    /\ \A i \in DOMAIN logs.rows : logs.rows[i]["player_key"] \notin Placeholders

\* a goal-assisting soccer pass was submitted on a roster of one player,
\* with the placeholder as its recipient: the passer's events are committed
C24_Witness ==
    /\ SubmittedIn(SoccerName)
    /\ W.stat_type = "Pass"
    /\ W.resulted_goal
    /\ W.receiver_key = Some("None")
    /\ Len(roster) = 1
    /\ Len(Rows) >= 1
    /\ Committed

\* a lacrosse goal with an assisting player of the roster was committed
AssistOfRosterRow ==
    /\ LcGoal
    /\ Len(Rows) = 3
    /\ Rows[3]["player_key"] # Rows[1]["player_key"]
    /\ OfRosterRow(Rows[3], roster)

\* row i of the returned events is the paired event of the submission: the
\* Reception of a football Pass, the Shot of a soccer Pass, the Assist of a
\* lacrosse Goal
IsPaired(i) ==
    /\ i \in DOMAIN Rows
    /\ \/ SubmittedIn(FootballName) /\ W.stat_type = "Pass"
                                    /\ Rows[i]["stat_type"] = "Reception"
       \/ SubmittedIn(SoccerName) /\ W.stat_type = "Pass"
                                  /\ Rows[i]["stat_type"] = "Shot"
       \/ SubmittedIn(LacrosseName) /\ W.stat_type = "Goal"
                                    /\ Rows[i]["stat_type"] = "Assist"

\* the roster holds two rows of one player_key
RosterHasTwins ==
    \E j, k \in DOMAIN roster : j # k /\ roster[j].player_key = roster[k].player_key

\* C25: the paired event of a submission never carries the player_key of
\* the primary event, also on a roster in which a player_key occurs twice.
C25_PairedPlayerDiffers ==
    run.action = "Submit" =>
        \A i \in DOMAIN Rows :
            IsPaired(i) =>
                /\ Rows[i]["player_key"] # W.player_key
                /\ Rows[i]["player_key"] # Rows[1]["player_key"]

\* a football pass was paired on a roster in which the passer's
\* player_key occurs twice
C25_Witness ==
    /\ SubmittedIn(FootballName)
    /\ RosterHasTwins
    /\ Cardinality({k \in DOMAIN roster : roster[k].player_key = W.player_key}) = 2
    /\ IsPaired(2)
    /\ Committed

\* on a roster whose rows all have one player_key no event is paired
TwinsAloneNeverPair ==
    /\ run.action = "Submit"
    /\ RosterHasTwins
    /\ Len(roster) = 2
    /\ W.stat_type = "Pass"
    /\ \A i \in DOMAIN Rows : ~IsPaired(i)

(***************************************************************************)
(* Goals against average                                                   *)
(***************************************************************************)
\* round(num / den, 0) for num >= 0 and den # 0: rounding is symmetric
RoundSigned(num, den) ==
    IF den > 0 THEN RoundHalfEven(num, den) ELSE 0 - RoundHalfEven(num, 0 - den)

\* round(Goals Allowed * 48 / Minutes, 2) of a totals row, in hundredths
GaaOfRow(row) == RoundSigned(100 * row["Goals Allowed"] * 48, row["Minutes"])

\* C26: in every totals row Lacrosse aggregate returns, GAA equals
\* round(Goals Allowed x 48 / Minutes, 2) when the player's summed Goalie
\* Minutes is not 0, and 0 when it is 0, for every value the Goalie Minutes
\* input can submit, negative values included.
C26_GaaFormula ==
    (Aggregated(LacrosseName) /\ Returned) =>
        \A i \in DOMAIN TotalsRows :
            TotalsRows[i]["GAA"] =
                IF TotalsRows[i]["Minutes"] # 0 THEN GaaOfRow(TotalsRows[i]) ELSE 0

\* GAA is the rounded quotient when Minutes is positive, and 0 otherwise
GaaWhenMinutesPositive ==
    (Aggregated(LacrosseName) /\ Returned) =>
        \A i \in DOMAIN TotalsRows :
            TotalsRows[i]["GAA"] =
                IF TotalsRows[i]["Minutes"] > 0 THEN GaaOfRow(TotalsRows[i]) ELSE 0

\* a goalie with -12 minutes and one goal allowed has GAA 0, not -4.00
NegativeMinutesGaaZero ==
    /\ Aggregated(LacrosseName)
    /\ Returned
    /\ \E i \in DOMAIN TotalsRows :
          /\ TotalsRows[i]["Minutes"] = -12
          /\ TotalsRows[i]["Goals Allowed"] = 1
          /\ GaaOfRow(TotalsRows[i]) = -400
          /\ TotalsRows[i]["GAA"] = 0

\* a goalie with 12 minutes and one goal allowed has GAA 4.00
PositiveMinutesGaa ==
    /\ Aggregated(LacrosseName)
    /\ Returned
    /\ \E i \in DOMAIN TotalsRows :
          /\ TotalsRows[i]["Minutes"] = 12
          /\ TotalsRows[i]["Goals Allowed"] = 1
          /\ TotalsRows[i]["GAA"] = 400

(***************************************************************************)
(* Soccer assists and the goals they assisted                              *)
(***************************************************************************)
SoccerAssists ==
    {i \in DOMAIN logs.rows :
        logs.rows[i]["sport"] = SoccerName /\ logs.rows[i]["stat_type"] = "Assist"}
SoccerGoals ==
    {i \in DOMAIN logs.rows :
        /\ logs.rows[i]["sport"] = SoccerName
        /\ logs.rows[i]["stat_type"] = "Shot"
        /\ "goal" \in logs.cols
        /\ logs.rows[i]["goal"] = Some(1)}

\* C27: in every log of a Soccer game the Assist events are at most as many
\* as the Shot events with goal = 1.
C27_NoAssistWithoutGoal ==
    SportOf(game) = SoccerName =>
        Cardinality(SoccerAssists) <= Cardinality(SoccerGoals)

\* when the recipient of a goal pass is a player of the roster, the Assist
\* is committed together with the recipient's goal
AssistWithGoalWhenResolved ==
    (ScGoalPass /\ Val(W.receiver_key) # W.player_key) =>
        /\ Cardinality(SoccerAssists) = Cardinality(SoccerGoals)
        /\ Cardinality(SoccerAssists) >= 1

\* a goal pass on a roster of one player committed an Assist and no goal
AssistWithoutGoal ==
    /\ SubmittedIn(SoccerName)
    /\ Len(roster) = 1
    /\ W.receiver_key = Some("None")
    /\ Cardinality(SoccerAssists) = 1
    /\ SoccerGoals = {}

(***************************************************************************)
(* The log belongs to the game                                             *)
(***************************************************************************)
\* C28: in every reachable state a log that holds events implies that a
\* game exists, and every event of the log has the sport of that game; so
\* the totals the page computes never meet an event of another sport.
C28_LogBelongsToGame ==
    logs.rows # <<>> =>
        /\ ~IsNull(game)
        /\ \A i \in DOMAIN logs.rows : logs.rows[i]["sport"] = Val(game).sport

\* the log of a Soccer game holds Soccer events only, after a Football game
\* of the same day and opponent whose events were logged and saved
C28_Witness ==
    /\ ~IsNull(game)
    /\ Val(game).sport = SoccerName
    /\ logs.rows # <<>>
    /\ \A i \in DOMAIN logs.rows : logs.rows[i]["sport"] = SoccerName
    /\ \E i \in DOMAIN GameSheet :
          /\ GameSheet[i].title = LogTitle([Val(game) EXCEPT !.sport = FootballName])
          /\ GameSheet[i].rows # <<>>

(***************************************************************************)
(* Percentages                                                             *)
(***************************************************************************)
PercentColumns ==
    {"Pass Completion %", "Faceoff %", "Save %", "Shooting %", "SOG Rate %"}

\* C29: every percentage column of every totals row an aggregate returns
\* for a log built through the forms lies between 0 and 100 (it is kept in
\* tenths), and in Lacrosse each player's Goals <= Shots on Goal <= Shots.
C29_PercentagesWithinBounds ==
    \A sport \in {SoccerName, LacrosseName} :
        (Aggregated(sport) /\ Returned) =>
            \A i \in DOMAIN TotalsRows :
                /\ \A c \in PercentColumns \cap DOMAIN TotalsRows[i] :
                      TotalsRows[i][c] >= 0 /\ TotalsRows[i][c] <= 1000
                /\ sport = LacrosseName =>
                      /\ TotalsRows[i]["Goals"] <= TotalsRows[i]["Shots on Goal"]
                      /\ TotalsRows[i]["Shots on Goal"] <= TotalsRows[i]["Shots"]

\* Lacrosse totals of a player with a goal and a shot off target: every
\* goal is a shot on goal, and the shooting percentage is 100
C29_Witness ==
    /\ Aggregated(LacrosseName)
    /\ Returned
    /\ \E i \in DOMAIN TotalsRows :
          /\ TotalsRows[i]["Goals"] = 1
          /\ TotalsRows[i]["Shots on Goal"] = 1
          /\ TotalsRows[i]["Shots"] = 2
          /\ TotalsRows[i]["Shooting %"] = 1000
          /\ TotalsRows[i]["SOG Rate %"] = 500

\* Soccer totals of a player with one completed pass out of two
HalfOfPassesCompleted ==
    /\ Aggregated(SoccerName)
    /\ Returned
    /\ \E i \in DOMAIN TotalsRows : TotalsRows[i]["Pass Completion %"] = 500

\* Lacrosse totals with a faceoff percentage of 100
FaceoffWon ==
    /\ Aggregated(LacrosseName)
    /\ Returned
    /\ \E i \in DOMAIN TotalsRows : TotalsRows[i]["Faceoff %"] = 1000

\* Lacrosse totals with a save percentage of 100
ShotSaved ==
    /\ Aggregated(LacrosseName)
    /\ Returned
    /\ \E i \in DOMAIN TotalsRows : TotalsRows[i]["Save %"] = 1000
(***************************************************************************)
(* What a roster import leaves alone                                       *)
(***************************************************************************)
\* C30: a CSV import, written or not, leaves the game, the event log and
\* the totals of the logged events as they were, and an import that does
\* not succeed leaves the roster of the session as it was.
C30_ImportKeepsGameAndLog ==
    [][run'.action = "ImportRoster" =>
          /\ game' = game
          /\ logs' = logs
          /\ \A g2 \in {game'}, l2 \in {logs'} :
                AggregateTotals(SportOf(g2), l2) = SessionTotals
          /\ (run'.outcome # "ok" => roster' = roster)]_vars

\* a written import whose roster no longer holds a player with a logged
\* event, whose totals row is still there
C30_Witness ==
    /\ Imported
    /\ run.outcome = "ok"
    /\ roster # <<>>
    /\ ~IsEmpty(logs)
    /\ \E i \in DOMAIN logs.rows :
          /\ logs.rows[i]["player_key"] \notin Range(PlayerKeys(roster))
          /\ \E j \in DOMAIN SessionTotals.rows :
                SessionTotals.rows[j]["player_key"] = logs.rows[i]["player_key"]

\* an import that failed while the session holds a roster and a log
FailedImportKeepsRoster ==
    /\ Imported
    /\ run.outcome \in {"rejected", "error"}
    /\ roster # <<>>
    /\ ~IsEmpty(logs)
=============================================================================
